---- MODULE Spec2Model ----
(***************************************************************************)
(* A model of GUI/blur.py (VideoBlurApp): the frame effect compositor      *)
(* (process_frame), the export pipeline (process_video), the mask          *)
(* rasterizers, the effect applicator and the encoder construction.        *)
(*                                                                         *)
(* Frames are records [w, h, px] where px maps <<x, y>> (column, row) to   *)
(* one 8-bit intensity; the three colour channels of the program are       *)
(* folded into one because every operation of the program treats the       *)
(* channels alike.                                                         *)
(***************************************************************************)
EXTENDS Integers, Sequences, FiniteSets, TLC

\* ------------------------------------------------------------------ bounds
\* Width and height of the opened video's frames, and its frame count.
FrameW == 3
FrameH == 2
TotalFrames == 3
\* Longest shape list the authoring actions build.
MaxShapes == 3
\* Largest blur kernel computed (the sums of a larger one leave 32 bits).
MaxKernel == 21
\* Width of the trim timeline, in pixels.
TrimCanvasWidth == 30

\* ------------------------------------------------------- program constants
\* The "selected" value of a mask and the largest value of a pixel.
White == 255
\* Default of the effect strength slider, and its ends.
DefaultStrength == 21
MinStrength == 3
\* init_face_detection: self.detection_frequency.
detection_frequency == 3
\* on_trim_click: the reach of a trim handle, in pixels.
HandleReach == 5

\* ------------------------------------------------------------- arithmetic
Min(a, b) == IF a < b THEN a ELSE b
Max(a, b) == IF a > b THEN a ELSE b
Abs(a) == IF a < 0 THEN -a ELSE a

\* Python's int(): truncation toward zero of the rational n / d (d > 0).
TruncDiv(n, d) == IF n >= 0 THEN n \div d ELSE -((-n) \div d)

\* Rounding to nearest of the rational n / d (n >= 0, d > 0), as the 8-bit
\* filters of OpenCV saturate-cast their results.
RoundDiv(n, d) == (2 * n + d) \div (2 * d)

Coords(w, h) == (0 .. w - 1) \X (0 .. h - 1)

\* The function f with every value computed once (f itself, as a table).
Table(f) == f @@ <<>>

\* A frame (or mask) of one value: np.zeros / np.ones * 255 / zeros_like.
Filled(w, h, v) == [w |-> w, h |-> h, px |-> Table([p \in Coords(w, h) |-> v])]

\* The frame the capture returns for absolute index i: every frame of the
\* video differs from every other and no pixel is black.
RawFrame(i) ==
    [w |-> FrameW, h |-> FrameH,
     px |-> Table([p \in Coords(FrameW, FrameH) |->
                20 + 30 * p[1] + 20 * p[2] + 7 * i + 60 * ((p[1] + p[2] + i) % 2)])]

\* ------------------------------------------------------------ rotate_frame
\* cos and sin of a multiple of 90 degrees (Python's % is non-negative).
Cos90(angle) == CASE angle % 360 = 0 -> 1
                  [] angle % 360 = 90 -> 0
                  [] angle % 360 = 180 -> -1
                  [] OTHER -> 0
Sin90(angle) == CASE angle % 360 = 0 -> 0
                  [] angle % 360 = 90 -> 1
                  [] angle % 360 = 180 -> 0
                  [] OTHER -> -1

\* rotate_frame: rotation about (width // 2, height // 2) on a canvas of the
\* same size, the border filled with the constant 0. warpAffine reads, for
\* each destination pixel, the source pixel the inverse of the rotation
\* matrix of getRotationMatrix2D names. Angles are multiples of 90, for
\* which the linear interpolation is exact.
rotate_frame(frame, angle) ==
    IF angle = 0 THEN frame
    ELSE LET cx == frame.w \div 2
             cy == frame.h \div 2
             a == Cos90(angle)
             b == Sin90(angle)
             SrcX(p) == a * (p[1] - cx) - b * (p[2] - cy) + cx
             SrcY(p) == b * (p[1] - cx) + a * (p[2] - cy) + cy
         IN [frame EXCEPT !.px =
               Table([p \in Coords(frame.w, frame.h) |->
                  IF /\ SrcX(p) \in 0 .. frame.w - 1
                     /\ SrcY(p) \in 0 .. frame.h - 1
                  THEN frame.px[<<SrcX(p), SrcY(p)>>]
                  ELSE 0])]

\* --------------------------------------------------------- mask rasterizers
\* A rectangle filled up to, but without, its far corner.
FillRectHalfOpen(w, h, x0, y0, x1, y1) ==
    [w |-> w, h |-> h,
     px |-> Table([p \in Coords(w, h) |->
               IF x0 <= p[1] /\ p[1] < x1 /\ y0 <= p[2] /\ p[2] < y1
               THEN 255 ELSE 0])]

\* cv2.rectangle(mask, (x_min, y_min), (x_max, y_max), 255, -1): the filled
\* rectangle with both corners inclusive, clipped to the mask.
FillRect(w, h, x0, y0, x1, y1) ==
    [w |-> w, h |-> h,
     px |-> Table([p \in Coords(w, h) |->
               IF x0 <= p[1] /\ p[1] <= x1 /\ y0 <= p[2] /\ p[2] <= y1
               THEN White ELSE 0])]

\* A pixel on the closed segment a-b (the outline cv2.fillPoly also fills).
OnSegment(p, a, b) ==
    /\ (b[1] - a[1]) * (p[2] - a[2]) = (b[2] - a[2]) * (p[1] - a[1])
    /\ Min(a[1], b[1]) <= p[1] /\ p[1] <= Max(a[1], b[1])
    /\ Min(a[2], b[2]) <= p[2] /\ p[2] <= Max(a[2], b[2])

\* Whether the ray from p toward +x crosses the edge a-b (even-odd rule).
Crosses(p, a, b) ==
    /\ (a[2] > p[2]) # (b[2] > p[2])
    /\ IF b[2] > a[2]
       THEN (p[1] - a[1]) * (b[2] - a[2]) < (b[1] - a[1]) * (p[2] - a[2])
       ELSE (p[1] - a[1]) * (b[2] - a[2]) > (b[1] - a[1]) * (p[2] - a[2])

\* cv2.fillPoly(mask, [points], 255): the closed polygon through points in
\* order, its outline included, interior by the even-odd rule.
FillPoly(w, h, points) ==
    LET n == Len(points)
        Nxt(k) == IF k = n THEN 1 ELSE k + 1
        Inside(p) ==
            \/ \E k \in 1 .. n : OnSegment(p, points[k], points[Nxt(k)])
            \/ Cardinality({k \in 1 .. n : Crosses(p, points[k], points[Nxt(k)])}) % 2 = 1
    IN [w |-> w, h |-> h,
        px |-> Table([p \in Coords(w, h) |-> IF Inside(p) THEN White ELSE 0])]

\* The mask of one manual shape (process_frame and process_video build it
\* with the same statements).
ShapeMask(w, h, shape) ==
    IF shape.type = "rectangle"
    THEN LET p1 == shape.points[1]
             p2 == shape.points[2]
         IN FillRect(w, h, Min(p1[1], p2[1]), Min(p1[2], p2[2]),
                           Max(p1[1], p2[1]), Max(p1[2], p2[2]))
    ELSE IF shape.type \in {"polygon", "freehand"}
    THEN FillPoly(w, h, shape.points)
    ELSE Filled(w, h, 0)

\* ------------------------------------------------------ apply_mask_effect
\* The kernel of cv2.GaussianBlur for sigma 0, as row k - 1 of Pascal's
\* triangle: OpenCV's own table for k = 3 and 5 (1 2 1, 1 4 6 4 1), and its
\* binomial approximation for the larger kernels.
RECURSIVE Kernel(_)
Kernel(k) ==
    IF k <= 1 THEN <<1>>
    ELSE LET prev == Kernel(k - 1)
             a == <<0>> \o prev
             b == prev \o <<0>>
             RECURSIVE Add(_)
             Add(j) == IF j > k THEN <<>> ELSE <<a[j] + b[j]>> \o Add(j + 1)
         IN Add(1)

RECURSIVE SumSeq(_)
SumSeq(s) == IF s = <<>> THEN 0 ELSE Head(s) + SumSeq(Tail(s))

\* BORDER_REFLECT_101, the default border of GaussianBlur: index i of a
\* line of n pixels, mirrored about its first and last pixel.
Reflect101(i, n) ==
    IF n = 1 THEN 0
    ELSE LET period == 2 * (n - 1)
             m == i % period
         IN IF m >= n THEN period - m ELSE m

\* What one pass of the filter of size k takes from pixel sx of a line of n
\* pixels for its pixel x: the kernel entries whose tap, mirrored at the
\* border, falls on sx.
Taps(k, n, x, sx) ==
    SumSeq([j \in 1 .. k |->
              IF Reflect101(x + j - 1 - k \div 2, n) = sx THEN Kernel(k)[j] ELSE 0])

\* The taps of every kernel the model computes, on every line a frame has.
KernelSizes == {k \in MinStrength .. MaxKernel : k % 2 = 1}
LineLengths == 1 .. Max(FrameW, FrameH)
TapTable ==
    Table([k \in KernelSizes |->
       Table([n \in LineLengths |->
          Table([x \in 0 .. n - 1 |->
             Table([sx \in 0 .. n - 1 |-> Taps(k, n, x, sx)])])])])

\* The sum of each kernel, by which a pass divides.
KernelSum == Table([k \in KernelSizes |-> SumSeq(Kernel(k))])

\* cv2.GaussianBlur(frame, (k, k), 0): the separable filter, rows first, each
\* pass divided by the sum of the kernel and rounded.
BlurRows(frame, tx, den) ==
    Table([p \in Coords(frame.w, frame.h) |->
             RoundDiv(SumSeq([i \in 1 .. frame.w |->
                                tx[p[1]][i - 1] * frame.px[<<i - 1, p[2]>>]]), den)])

BlurColumns(frame, rows, ty, den) ==
    Table([p \in Coords(frame.w, frame.h) |->
             RoundDiv(SumSeq([i \in 1 .. frame.h |->
                                ty[p[2]][i - 1] * rows[<<p[1], i - 1>>]]), den)])

GaussianBlur(frame, k) ==
    [frame EXCEPT !.px =
        BlurColumns(frame, BlurRows(frame, TapTable[k][frame.w], KernelSum[k]),
                    TapTable[k][frame.h], KernelSum[k])]

\* cv2.resize(frame, (ws, hs), interpolation=INTER_LINEAR): destination
\* pixel d samples the source at (d + 0.5) * n / ns - 0.5, between the two
\* nearest source pixels (the last one repeated at the border).
ResizeLinear(frame, ws, hs) ==
    LET NumX(d) == (2 * d + 1) * frame.w - ws
        NumY(d) == (2 * d + 1) * frame.h - hs
        X0(d) == Min(NumX(d) \div (2 * ws), frame.w - 1)
        Y0(d) == Min(NumY(d) \div (2 * hs), frame.h - 1)
        X1(d) == Min(X0(d) + 1, frame.w - 1)
        Y1(d) == Min(Y0(d) + 1, frame.h - 1)
        FX(d) == NumX(d) % (2 * ws)
        FY(d) == NumY(d) % (2 * hs)
    IN [w |-> ws, h |-> hs,
        px |-> Table([p \in Coords(ws, hs) |->
           RoundDiv(
               (2 * ws - FX(p[1])) * (2 * hs - FY(p[2])) * frame.px[<<X0(p[1]), Y0(p[2])>>]
             + FX(p[1]) * (2 * hs - FY(p[2])) * frame.px[<<X1(p[1]), Y0(p[2])>>]
             + (2 * ws - FX(p[1])) * FY(p[2]) * frame.px[<<X0(p[1]), Y1(p[2])>>]
             + FX(p[1]) * FY(p[2]) * frame.px[<<X1(p[1]), Y1(p[2])>>],
             4 * ws * hs)])]

\* cv2.resize(temp, (w, h), interpolation=INTER_NEAREST).
ResizeNearest(frame, w, h) ==
    [w |-> w, h |-> h,
     px |-> Table([p \in Coords(w, h) |->
               frame.px[<<Min((p[1] * frame.w) \div w, frame.w - 1),
                          Min((p[2] * frame.h) \div h, frame.h - 1)>>]])]

\* np.where(mask[:, :, np.newaxis] == 255, effect, result)
Where(mask, effect, result) ==
    [result EXCEPT !.px =
       Table([p \in Coords(result.w, result.h) |->
          IF mask.px[p] = White THEN effect.px[p] ELSE result.px[p]])]

\* An effect applicator that forgets the mask when it pixelates.
apply_mask_effect_unmasked(frame, mask, mask_type, blur_strength, color) ==
    [result |->
        CASE mask_type = "blur" ->
               Where(mask, GaussianBlur(frame, blur_strength + 1 - (blur_strength % 2)), frame)
          [] mask_type = "pixelate" ->
               ResizeNearest(ResizeLinear(frame, frame.w \div Max(1, blur_strength \div 10),
                                          frame.h \div Max(1, blur_strength \div 10)),
                             frame.w, frame.h)
          [] mask_type = "solid" -> Where(mask, Filled(frame.w, frame.h, color), frame)
          [] mask_type = "black" -> Where(mask, Filled(frame.w, frame.h, 0), frame)
          [] OTHER -> frame,
     frame |-> frame]

\* apply_mask_effect(frame, mask, mask_type, blur_strength, color). The
\* value is [result |-> the returned frame, frame |-> the caller's buffer
\* as the call leaves it]: the function works on frame.copy() and never
\* writes to its argument.
apply_mask_effect(frame, mask, mask_type, blur_strength, color) ==
    LET odd == IF blur_strength % 2 = 0 THEN blur_strength + 1 ELSE blur_strength
        scale == Max(1, blur_strength \div 10)
        result ==
          CASE mask_type = "blur" ->
                 Where(mask, GaussianBlur(frame, odd), frame)
            [] mask_type = "pixelate" ->
                 Where(mask,
                       ResizeNearest(ResizeLinear(frame, frame.w \div scale, frame.h \div scale),
                                     frame.w, frame.h),
                       frame)
            [] mask_type = "solid" ->
                 Where(mask, Filled(frame.w, frame.h, color), frame)
            [] mask_type = "black" ->
                 Where(mask, Filled(frame.w, frame.h, 0), frame)
            [] OTHER -> frame
    IN [result |-> result, frame |-> frame]

\* ------------------------------------------------------------------- state
VARIABLES
    \* self.cap ("none", or a capture that is "opened" or "unopened"), the
    \* index of the frame its next read returns, and what open_video stores
    cap, cap_pos, input_video, output_path, total_frames,
    \* navigation and display
    frame_index, current_frame, preview, stage_log, status_text,
    \* manual shapes and the drawing gesture in progress
    shapes, drawing, current_shape, current_shape_type,
    \* mask settings
    blur_strength, mask_type, mask_type_var, mask_shape, mask_color,
    \* processing range
    blur_entire_video, start_frame, end_frame,
    \* crop
    crop_enabled, crop_x, crop_y, crop_width, crop_height, drawing_crop,
    crop_type, crop_mask_type, crop_all_frames, crop_start_frame, crop_end_frame,
    \* rotation
    rotation_angle, rotation_enabled,
    \* trim
    trim_enabled, trim_start_frame, trim_end_frame, dragging_start, dragging_end,
    \* face detection and tracking
    auto_detect_faces, rtmpose_initialized, has_deepsort, tracked_faces,
    \* process_video: its position, its locals and the encoder
    pc, out, run_start, run_end, current_frame_idx, frame_count, errors,
    read_log, written, preview_ref, read_failed,
    \* process_video: face_tracking_data, what the run asked of the detector
    \* and the tracker, and the values it set status_text to, in order
    telemetry, face_log, reports, releases,
    \* get_video_writer: the file extension asked for, the codecs that
    \* open on this machine, the codecs tried in order
    ext, codecs_ok, attempts,
    \* the effect applicator and the rasterizers on their own
    fx_frame, fx_orig, fx_mask, fx_result, fx_shape, fx_shapes, fx_index,
    fx_preview, fx_export,
    \* detect_faces on its own: what the collaborators answer, what it returns
    fx_det, fx_faces

videoVars == <<cap, cap_pos, input_video, output_path, total_frames>>
viewVars == <<frame_index, current_frame, preview, stage_log, status_text>>
shapeVars == <<shapes, drawing, current_shape, current_shape_type>>
maskVars == <<blur_strength, mask_type, mask_type_var, mask_shape, mask_color>>
rangeVars == <<blur_entire_video, start_frame, end_frame>>
cropVars == <<crop_enabled, crop_x, crop_y, crop_width, crop_height, drawing_crop,
              crop_type, crop_mask_type, crop_all_frames, crop_start_frame,
              crop_end_frame>>
rotVars == <<rotation_angle, rotation_enabled>>
trimVars == <<trim_enabled, trim_start_frame, trim_end_frame, dragging_start,
              dragging_end>>
envVars == <<rtmpose_initialized, has_deepsort>>
faceVars == <<auto_detect_faces, tracked_faces>>
runVars == <<pc, out, run_start, run_end, current_frame_idx, frame_count, errors,
             read_log, written, preview_ref, read_failed, telemetry, face_log, reports,
             releases>>
writerVars == <<ext, codecs_ok, attempts>>
fxVars == <<fx_frame, fx_orig, fx_mask, fx_result, fx_shape, fx_shapes, fx_index,
           fx_preview, fx_export, fx_det, fx_faces>>

vars == <<videoVars, viewVars, shapeVars, maskVars, rangeVars, cropVars, rotVars,
          trimVars, envVars, faceVars, runVars, writerVars, fxVars>>

\* None, where the program holds a frame or not.
NoFrame == [w |-> 0, h |-> 0, px |-> <<>>]
\* A writer that was never constructed.
NoWriter == [path |-> "none", opened |-> FALSE, codec |-> "none", w |-> 0, h |-> 0,
             released |-> FALSE]

\* face_tracking_data as process_video initializes it: no frame, no face.
NoTelemetry == [frames |-> <<>>, faces |-> <<>>]

MaskTypes == {"blur", "black", "pixelate", "solid"}
Codecs == {"avc1", "XVID", "WMV2", "mp4v", "H264"}
Extensions == {".mp4", ".avi", ".mov", ".mkv", ".wmv", ".webm"}

\* __init__ and init_face_detection on a machine where rtmlib imports or not
\* (rtm) and deep_sort_realtime imports or not (ds).
Constructed(rtm, ds) ==
    /\ cap = "none" /\ cap_pos = 0
    /\ input_video = "none" /\ output_path = "none" /\ total_frames = 0
    /\ frame_index = 0 /\ current_frame = NoFrame /\ preview = NoFrame
    /\ stage_log = <<>>
    /\ status_text = "Open a video file to begin"
    /\ shapes = <<>> /\ drawing = FALSE /\ current_shape = <<>>
    /\ current_shape_type = "rectangle"
    /\ blur_strength = DefaultStrength /\ mask_type = "blur" /\ mask_type_var = "blur"
    /\ mask_shape = "oval" /\ mask_color = 0
    /\ blur_entire_video = TRUE /\ start_frame = 0 /\ end_frame = 0
    /\ crop_enabled = FALSE /\ crop_x = 0 /\ crop_y = 0
    /\ crop_width = 0 /\ crop_height = 0 /\ drawing_crop = FALSE
    /\ crop_type = "traditional" /\ crop_mask_type = "black"
    /\ crop_all_frames = TRUE /\ crop_start_frame = 0 /\ crop_end_frame = 0
    /\ rotation_angle = 0 /\ rotation_enabled = FALSE
    /\ trim_enabled = FALSE /\ trim_start_frame = 0 /\ trim_end_frame = 0
    /\ dragging_start = FALSE /\ dragging_end = FALSE
    /\ auto_detect_faces = FALSE /\ tracked_faces = <<>>
    /\ rtmpose_initialized = rtm
    /\ has_deepsort = ds
    /\ pc = "idle" /\ out = NoWriter /\ run_start = 0 /\ run_end = 0
    /\ current_frame_idx = 0 /\ frame_count = 0 /\ errors = 0
    /\ read_log = <<>> /\ written = <<>> /\ preview_ref = <<>> /\ read_failed = FALSE
    /\ telemetry = NoTelemetry /\ face_log = <<>> /\ reports = <<>> /\ releases = 0
    /\ ext = ".mp4" /\ codecs_ok = Codecs /\ attempts = <<>>

\* No call of the functions checked on their own is under way.
NoCall ==
    /\ fx_frame = NoFrame /\ fx_orig = NoFrame /\ fx_mask = NoFrame
    /\ fx_result = NoFrame /\ fx_shape = <<>> /\ fx_shapes = <<>> /\ fx_index = 0
    /\ fx_preview = <<>> /\ fx_export = <<>>
    /\ fx_det = <<>> /\ fx_faces = <<>>

\* The window as it opens; what the imports gave is the machine's.
Init ==
    /\ \E rtm \in BOOLEAN, ds \in BOOLEAN : Constructed(rtm, ds)
    /\ NoCall

\* The authoring state the compositor reads.
Settings ==
    [shapes |-> shapes,
     rotation_enabled |-> rotation_enabled, rotation_angle |-> rotation_angle,
     auto_detect_faces |-> auto_detect_faces,
     rtmpose_initialized |-> rtmpose_initialized, has_deepsort |-> has_deepsort,
     mask_type |-> mask_type, mask_shape |-> mask_shape,
     blur_strength |-> blur_strength, mask_color |-> mask_color,
     crop_enabled |-> crop_enabled, crop_x |-> crop_x, crop_y |-> crop_y,
     crop_width |-> crop_width, crop_height |-> crop_height,
     crop_type |-> crop_type, crop_mask_type |-> crop_mask_type,
     crop_all_frames |-> crop_all_frames,
     crop_start_frame |-> crop_start_frame, crop_end_frame |-> crop_end_frame]

\* ------------------------------------------------------------ detect_faces
\* What the external collaborators answer for one frame: whether the
\* detector (or the tracker) raises, the persons the detector returns (each
\* a sequence of keypoints [x, y, s], s the score in thousandths), and the
\* tracks the DeepSort tracker returns for the detections it is handed.
NoDetection == [raises |-> FALSE, persons |-> <<>>, tracks |-> <<>>]

\* The keypoints of one person that count as face keypoints: the first
\* five, those scored above 0.3.
RECURSIVE FaceKps(_, _)
FaceKps(person, idx) ==
    IF idx > 5 THEN <<>>
    ELSE (IF idx <= Len(person) /\ person[idx].s > 300 THEN <<person[idx]>> ELSE <<>>)
         \o FaceKps(person, idx + 1)

SeqMin(q) == CHOOSE m \in {q[i] : i \in 1 .. Len(q)} : \A i \in 1 .. Len(q) : m <= q[i]
SeqMax(q) == CHOOSE m \in {q[i] : i \in 1 .. Len(q)} : \A i \in 1 .. Len(q) : m >= q[i]

\* The padded face box of one person's face keypoints, clipped to the frame:
\* half the width on each side, 0.7 of the height above and below.
FaceBox(kps, frame) ==
    LET xs == [i \in 1 .. Len(kps) |-> kps[i].x]
        ys == [i \in 1 .. Len(kps) |-> kps[i].y]
        x_min == SeqMin(xs)
        y_min == SeqMin(ys)
        width == Max(1, SeqMax(xs) - x_min)
        height == Max(1, SeqMax(ys) - y_min)
        x == Max(0, TruncDiv(2 * x_min - width, 2))
        y == Max(0, TruncDiv(10 * y_min - 7 * height, 10))
        w == Min(2 * width, frame.w - x)
        h == Min(TruncDiv(24 * height, 10), frame.h - y)
    IN [bbox |-> <<x, y, w, h>>,
        confidence |-> SumSeq([i \in 1 .. Len(kps) |-> kps[i].s]) \div Len(kps)]

RECURSIVE Detections(_, _)
Detections(persons, frame) ==
    IF persons = <<>> THEN <<>>
    ELSE LET kps == FaceKps(Head(persons), 1)
         IN (IF Len(kps) >= 2 THEN <<FaceBox(kps, frame)>> ELSE <<>>)
            \o Detections(Tail(persons), frame)

RECURSIVE ConfirmedTracks(_, _)
ConfirmedTracks(tracks, fi) ==
    IF tracks = <<>> THEN <<>>
    ELSE (IF Head(tracks).confirmed
          THEN <<[id |-> Head(tracks).track_id, bbox |-> Head(tracks).tlwh,
                  confidence |-> Head(tracks).det_conf, frame_index |-> fi]>>
          ELSE <<>>)
         \o ConfirmedTracks(Tail(tracks), fi)

\* A detect_faces whose failure leaves one track over the whole frame.
detect_faces_fail_open(frame, S, fi, det) ==
    IF det.raises
    THEN <<[id |-> 0, bbox |-> <<0, 0, frame.w, frame.h>>, confidence |-> 0,
            frame_index |-> fi]>>
    ELSE <<>>

\* detect_faces(frame), with self.frame_index = fi: the tracks as
\* [id, bbox, confidence, frame_index]. Anything raised inside is caught
\* and leaves the empty list.
detect_faces(frame, S, fi, det) ==
    IF ~S.rtmpose_initialized THEN <<>>
    ELSE IF det.raises THEN <<>>
    ELSE LET detections == Detections(det.persons, frame)
         IN IF S.has_deepsort /\ detections # <<>>
            THEN ConfirmedTracks(det.tracks, fi)
            ELSE [i \in 1 .. Len(detections) |->
                    [id |-> i - 1, bbox |-> detections[i].bbox,
                     confidence |-> detections[i].confidence, frame_index |-> fi]]

\* -------------------------------------------------------- create_face_mask
\* A pixel of the filled ellipse cv2.ellipse draws about (cx, cy) with axes
\* (a, b); an axis of 0 leaves a line. lower: only the half from angle 0 to
\* 180, which in image coordinates is the half at and below the centre.
InEllipse(p, cx, cy, a, b, lower) ==
    /\ a >= 0 /\ b >= 0
    /\ (p[1] - cx) * (p[1] - cx) * b * b + (p[2] - cy) * (p[2] - cy) * a * a
          <= a * a * b * b
    /\ Abs(p[1] - cx) <= a /\ Abs(p[2] - cy) <= b
    /\ lower => p[2] >= cy

\* Whether one tracked face covers pixel p under self.mask_shape. The
\* program never assigns mask_shape after __init__ ("oval"); the "precise"
\* outline, which it therefore never draws, is left empty here.
FaceCovers(p, face, shape) ==
    LET x == face.bbox[1]
        y == face.bbox[2]
        w == face.bbox[3]
        h == face.bbox[4]
    IN CASE shape = "rectangle" ->
              x <= p[1] /\ p[1] <= x + w /\ y <= p[2] /\ p[2] <= y + h
         [] shape = "oval" ->
              \/ InEllipse(p, x + w \div 2, y + h \div 2, w \div 2, h \div 2, FALSE)
              \/ InEllipse(p, x + w \div 2, y + h \div 4, w \div 2, h \div 2, TRUE)
         [] OTHER -> FALSE

\* create_face_mask(frame): every tracked face drawn into one mask.
create_face_mask(frame, faces, shape) ==
    [w |-> frame.w, h |-> frame.h,
     px |-> Table([p \in Coords(frame.w, frame.h) |->
               IF \E i \in 1 .. Len(faces) : FaceCovers(p, faces[i], shape)
               THEN White ELSE 0])]

\* ------------------------------------------------------------ the compositor
\* A frame on its way through the compositor, with the stages applied to it
\* so far, in order.
Staged(C, stage, arg, frame) ==
    [frame |-> frame, log |-> Append(C.log, [stage |-> stage, arg |-> arg])]

\* A range test that leaves out the last frame of the range.
ShapeSkippedAtEnd(shape, fi) ==
    shape.ranged /\ (fi < shape.start \/ fi >= shape.end)

\* Whether the loop over self.shapes skips the shape at frame fi: a shape
\* tuple of 7 elements carries its range at [5] and [6].
ShapeSkipped(shape, fi) ==
    shape.ranged /\ (fi < shape.start \/ fi > shape.end)

\* A loop over the shapes that runs from the last shape to the first.
RECURSIVE ApplyShapesReversed(_, _, _, _, _, _)
ApplyShapesReversed(C, shps, k, fi, w, h) ==
    IF k > Len(shps) THEN C
    ELSE IF shps[Len(shps) + 1 - k].ranged
            /\ (fi < shps[Len(shps) + 1 - k].start \/ fi > shps[Len(shps) + 1 - k].end)
    THEN ApplyShapesReversed(C, shps, k + 1, fi, w, h)
    ELSE ApplyShapesReversed(
           [frame |-> apply_mask_effect(C.frame, ShapeMask(w, h, shps[Len(shps) + 1 - k]),
                                        shps[Len(shps) + 1 - k].mask_type,
                                        shps[Len(shps) + 1 - k].strength,
                                        shps[Len(shps) + 1 - k].color).result,
            log |-> Append(C.log, [stage |-> "shape", arg |-> k])],
           shps, k + 1, fi, w, h)

\* "Apply manual shapes": the shapes of the list from the k-th on, each on
\* the result of the one before; masks have the raw frame's size w x h.
RECURSIVE ApplyShapes(_, _, _, _, _, _)
ApplyShapes(C, shps, k, fi, w, h) ==
    IF k > Len(shps) THEN C
    ELSE IF ShapeSkipped(shps[k], fi) THEN ApplyShapes(C, shps, k + 1, fi, w, h)
    ELSE ApplyShapes(
           Staged(C, "shape", k,
                  apply_mask_effect(C.frame, ShapeMask(w, h, shps[k]), shps[k].mask_type,
                                    shps[k].strength, shps[k].color).result),
           shps, k + 1, fi, w, h)

\* A face stage that applies the effect track by track, each under its own
\* mask and on the result of the one before.
RECURSIVE EffectPerFace(_, _, _, _, _)
EffectPerFace(C, frame, faces, k, S) ==
    IF k > Len(faces) THEN C
    ELSE EffectPerFace(
           [C EXCEPT !.frame =
               apply_mask_effect(C.frame, create_face_mask(frame, <<faces[k]>>, S.mask_shape),
                                 S.mask_type, S.blur_strength, S.mask_color).result],
           frame, faces, k + 1, S)

ApplyFacesEach(C, frame, faces, S) ==
    IF faces # <<>>
    THEN EffectPerFace(Staged(C, "face", Len(faces), C.frame), frame, faces, 1, S)
    ELSE C

\* The face stage once self.tracked_faces is settled: one mask of all the
\* tracks, one application of the face effect.
ApplyFaces(C, frame, faces, S) ==
    IF faces # <<>>
    THEN Staged(C, "face", Len(faces),
                apply_mask_effect(C.frame, create_face_mask(frame, faces, S.mask_shape),
                                  S.mask_type, S.blur_strength, S.mask_color).result)
    ELSE C

\* np.ones((h, w)) * 255 with mask[y:y+ch, x:x+cw] = 0 (numpy clips a slice
\* at the end of the array).
OutsideMask(w, h, x, y, cw, ch) ==
    [w |-> w, h |-> h,
     px |-> Table([p \in Coords(w, h) |->
               IF x <= p[1] /\ p[1] < x + cw /\ y <= p[2] /\ p[2] < y + ch
               THEN 0 ELSE White])]

\* frame[y:y+ch, x:x+cw]
Slice(frame, x, y, cw, ch) ==
    LET sw == Max(0, Min(x + cw, frame.w) - Min(x, frame.w))
        sh == Max(0, Min(y + ch, frame.h) - Min(y, frame.h))
    IN [w |-> sw, h |-> sh,
        px |-> Table([p \in Coords(sw, sh) |-> frame.px[<<x + p[1], y + p[2]>>]])]

\* The rotation stage, the same statement in preview and export.
ApplyRotation(frame, S) ==
    IF S.rotation_enabled /\ S.rotation_angle # 0
    THEN [frame |-> rotate_frame(frame, S.rotation_angle),
          log |-> <<[stage |-> "rotation", arg |-> S.rotation_angle]>>]
    ELSE [frame |-> frame, log |-> <<>>]

\* The tracks held after the "re-detect periodically" statement, whose
\* counter n is self.frame_index in process_frame and frame_count in
\* process_video; fi is self.frame_index, which detect_faces stamps.
Invoked(n, faces) == n % detection_frequency = 0 \/ faces = <<>>

Redetect(frame, S, n, fi, faces, det) ==
    IF Invoked(n, faces) THEN detect_faces(frame, S, fi, det) ELSE faces

\* Whether the face branch of the compositor runs.
Detecting(S) == S.auto_detect_faces /\ S.rtmpose_initialized

\* self.tracked_faces as the face branch leaves it (n as in Redetect).
HeldFaces(frame, S, n, fi, faces, det) ==
    IF Detecting(S) THEN Redetect(frame, S, n, fi, faces, det) ELSE faces

\* The face stage: "if self.tracked_faces", inside the face branch.
FaceStage(C, frame, S, held) ==
    IF Detecting(S) THEN ApplyFaces(C, frame, held, S) ELSE C

\* The crop stage of process_frame: the preview only masks outside the
\* region, whatever the crop's frame range; a traditional crop is drawn as
\* an overlay and leaves the frame alone.
PreviewCrop(C, S, w, h) ==
    IF /\ S.crop_enabled /\ S.crop_width > 0 /\ S.crop_height > 0
       /\ S.crop_type = "mask"
    THEN Staged(C, "crop", 0,
                apply_mask_effect(C.frame,
                    OutsideMask(w, h, S.crop_x, S.crop_y, S.crop_width, S.crop_height),
                    S.crop_mask_type, S.blur_strength, S.mask_color).result)
    ELSE C

\* What a composition hands back: the frame, the tracks held and the stages
\* applied.
Composed(C, held) == [result |-> C.frame, tracked_faces |-> held, log |-> C.log]

\* process_frame once the tracks to mask are settled.
PreviewWith(frame, S, fi, held) ==
    Composed(PreviewCrop(ApplyShapes(FaceStage(ApplyRotation(frame, S), frame, S, held),
                                     S.shapes, 1, fi, frame.w, frame.h),
                         S, frame.w, frame.h),
             held)

\* process_frame(frame) with self.frame_index = fi and self.tracked_faces =
\* faces: [result, tracked_faces, log].
process_frame(frame, S, fi, faces, det) ==
    PreviewWith(frame, S, fi, HeldFaces(frame, S, fi, fi, faces, det))

\* The crop stage of process_video at frame idx of a capture of
\* width x height: inside the crop's frame range the region, clamped to the
\* frame, is cut out or everything outside it is masked.
ExportCrop(C, S, idx, width, height) ==
    LET x == Max(0, Min(S.crop_x, width - 1))
        y == Max(0, Min(S.crop_y, height - 1))
        w == Min(S.crop_width, width - x)
        h == Min(S.crop_height, height - y)
    IN IF /\ S.crop_enabled /\ S.crop_width > 0 /\ S.crop_height > 0
          /\ (S.crop_all_frames \/ (S.crop_start_frame <= idx /\ idx <= S.crop_end_frame))
       THEN IF S.crop_type = "traditional"
            THEN Staged(C, "crop", 1, Slice(C.frame, x, y, w, h))
            ELSE Staged(C, "crop", 0,
                        apply_mask_effect(C.frame, OutsideMask(width, height, x, y, w, h),
                                          S.crop_mask_type, S.blur_strength,
                                          S.mask_color).result)
       ELSE C

\* A loop body that masks the shapes before the faces.
ExportShapesFirst(frame, S, idx, held, width, height) ==
    Composed(ExportCrop(FaceStage(ApplyShapes(ApplyRotation(frame, S), S.shapes, 1, idx,
                                              width, height),
                                  frame, S, held),
                        S, idx, width, height),
             held)

\* The body of the frame loop once the tracks to mask are settled.
ExportWith(frame, S, idx, held, width, height) ==
    Composed(ExportCrop(ApplyShapes(FaceStage(ApplyRotation(frame, S), frame, S, held),
                                    S.shapes, 1, idx, width, height),
                        S, idx, width, height),
             held)

\* The body of the frame loop of process_video between cap.read() and
\* out.write(): frame is the frame read for current_frame_idx = idx, count
\* is frame_count, fi is self.frame_index (which the run never moves) and
\* width x height are the capture's.
ExportCompose(frame, S, idx, count, fi, faces, det, width, height) ==
    ExportWith(frame, S, idx, HeldFaces(frame, S, count, fi, faces, det), width, height)

\* -------------------------------------------------------- show_current_frame
\* What the detector and the tracker may answer for a frame. The persons
\* stand at the two ends of the frame, so that their padded boxes overlap.
PersonLeft == <<[x |-> 0, y |-> 0, s |-> 900], [x |-> 0, y |-> 0, s |-> 700]>>
PersonRight == <<[x |-> FrameW - 1, y |-> FrameH - 1, s |-> 800],
                 [x |-> FrameW - 1, y |-> FrameH - 1, s |-> 600],
                 [x |-> 0, y |-> 0, s |-> 100]>>
PersonFaint == <<[x |-> 1, y |-> 1, s |-> 900], [x |-> 0, y |-> 0, s |-> 300]>>

TrackLeft == [confirmed |-> TRUE, track_id |-> 7, tlwh |-> <<0, 0, 2, 2>>, det_conf |-> 800]
TrackRight == [confirmed |-> TRUE, track_id |-> 8,
               tlwh |-> <<FrameW - 2, FrameH - 2, 2, 2>>, det_conf |-> 700]
TrackNew == [confirmed |-> FALSE, track_id |-> 9, tlwh |-> <<1, 0, 1, 1>>, det_conf |-> 600]

DetectorOutputs ==
    {[raises |-> TRUE, persons |-> <<>>, tracks |-> <<>>],
     [raises |-> FALSE, persons |-> <<>>, tracks |-> <<>>],
     [raises |-> FALSE, persons |-> <<PersonLeft, PersonFaint, PersonRight>>,
      tracks |-> IF has_deepsort THEN <<TrackLeft, TrackNew, TrackRight>> ELSE <<>>]}

\* The answers that matter to a composition: the collaborators are asked
\* only when the re-detect statement runs.
Answers(c, S, n, faces) ==
    IF /\ c = "opened" /\ S.auto_detect_faces /\ S.rtmpose_initialized
       /\ (n % detection_frequency = 0 \/ faces = <<>>)
    THEN DetectorOutputs
    ELSE {NoDetection}

\* What show_current_frame leaves, called with self.cap = c, the authoring
\* state S, self.frame_index = fi, self.total_frames = n and
\* self.tracked_faces = faces, over the view it finds (V): nothing without a
\* capture; "Failed to read frame" when the read fails; else the raw frame
\* in current_frame and process_frame's result on display.
ShownFrame(r, fi) ==
    [cap_pos |-> fi + 1, current_frame |-> RawFrame(fi), preview |-> r.result,
     stage_log |-> r.log, tracked_faces |-> r.tracked_faces, status_text |-> "Frame"]

show_current_frame(c, S, fi, n, faces, det, V) ==
    IF c = "none" THEN [V EXCEPT !.tracked_faces = faces]
    ELSE IF c # "opened" \/ fi < 0 \/ fi >= n
    THEN [V EXCEPT !.tracked_faces = faces, !.status_text = "Failed to read frame"]
    ELSE ShownFrame(process_frame(RawFrame(fi), S, fi, faces, det), fi)

View == [cap_pos |-> cap_pos, current_frame |-> current_frame, preview |-> preview,
         stage_log |-> stage_log, tracked_faces |-> tracked_faces,
         status_text |-> status_text]

\* The view a handler leaves: r as show_current_frame returned it, under the
\* status the handler sets afterwards ("" when it sets none).
Shown(r, status) ==
    /\ cap_pos' = r.cap_pos
    /\ current_frame' = r.current_frame
    /\ preview' = r.preview
    /\ stage_log' = r.stage_log
    /\ tracked_faces' = r.tracked_faces
    /\ status_text' = IF status = "" THEN r.status_text ELSE status

\* No handler of the window runs while process_video does: its progress
\* window holds the grab.
Idle == pc = "idle"

sessionVars == <<cap, input_video, output_path, total_frames>>
otherVars == <<envVars, runVars, writerVars, fxVars>>

\* ----------------------------------------------------------------- handlers
\* open_video, the file dialog answered with a file of extension e and of n
\* frames that opens (ok) or not.
open_video(ok, e, n) ==
    /\ Idle
    /\ IF ~ok
       THEN /\ cap' = "unopened"
            /\ status_text' = "Failed to open video file"
            /\ UNCHANGED <<cap_pos, input_video, output_path, total_frames, frame_index,
                           current_frame, preview, stage_log, shapeVars, rangeVars,
                           cropVars, rotVars, trimVars, faceVars, ext>>
       ELSE /\ cap' = "opened"
            /\ input_video' = "video"
            /\ ext' = e
            /\ total_frames' = n
            /\ frame_index' = 0
            /\ shapes' = <<>>
            /\ crop_x' = 0 /\ crop_y' = 0 /\ crop_width' = 0 /\ crop_height' = 0
            /\ crop_enabled' = FALSE
            /\ trim_enabled' = FALSE
            /\ trim_start_frame' = 0 /\ trim_end_frame' = n - 1
            /\ rotation_angle' = 0 /\ rotation_enabled' = FALSE
            /\ start_frame' = 0 /\ end_frame' = n - 1
            /\ crop_start_frame' = 0 /\ crop_end_frame' = n - 1
            /\ LET S == [Settings EXCEPT !.shapes = <<>>, !.crop_enabled = FALSE,
                                          !.crop_x = 0, !.crop_y = 0,
                                          !.crop_width = 0, !.crop_height = 0,
                                          !.crop_start_frame = 0,
                                          !.crop_end_frame = n - 1,
                                          !.rotation_enabled = FALSE,
                                          !.rotation_angle = 0]
               IN \E det \in Answers("opened", S, 0, <<>>) :
                    Shown(show_current_frame("opened", S, 0, n, <<>>, det, View),
                          "Opened video")
            /\ UNCHANGED <<output_path, drawing, current_shape, current_shape_type,
                           blur_entire_video, drawing_crop, crop_type, crop_mask_type,
                           crop_all_frames, dragging_start, dragging_end,
                           auto_detect_faces>>
    /\ UNCHANGED <<maskVars, envVars, runVars, codecs_ok, attempts, fxVars>>

\* set_output_path, the directory dialog answered.
set_output_path ==
    /\ Idle
    /\ output_path' = "out"
    /\ status_text' = "Output path set"
    /\ UNCHANGED <<cap, cap_pos, input_video, total_frames, frame_index, current_frame,
                   preview, stage_log, shapeVars, maskVars, rangeVars, cropVars, rotVars,
                   trimVars, faceVars, otherVars>>

\* A handler that only moves self.frame_index to fi and shows the frame.
GoTo(fi) ==
    /\ frame_index' = fi
    /\ \E det \in Answers(cap, Settings, fi, tracked_faces) :
         Shown(show_current_frame(cap, Settings, fi, total_frames, tracked_faces, det, View),
               "")
    /\ UNCHANGED <<sessionVars, shapeVars, maskVars, rangeVars, cropVars, rotVars,
                   trimVars, auto_detect_faces, otherVars>>

next_frame ==
    /\ Idle /\ cap # "none"
    /\ frame_index < total_frames - 1
    /\ GoTo(frame_index + 1)

prev_frame ==
    /\ Idle /\ cap # "none"
    /\ frame_index > 0
    /\ GoTo(frame_index - 1)

\* The "Mask Type" combobox, which writes self.mask_type_var.
select_mask_type(t) ==
    /\ Idle
    /\ mask_type_var # t
    /\ mask_type_var' = t
    /\ UNCHANGED <<videoVars, viewVars, shapeVars, blur_strength, mask_type, mask_shape,
                   mask_color, rangeVars, cropVars, rotVars, trimVars, faceVars, otherVars>>

\* update_blur_strength, the slider at value: an even value is made odd.
update_blur_strength(value) ==
    /\ Idle
    /\ blur_strength' = IF value % 2 = 0 THEN value + 1 ELSE value
    /\ blur_strength' # blur_strength
    /\ UNCHANGED <<videoVars, viewVars, shapeVars, mask_type, mask_type_var, mask_shape,
                   mask_color, rangeVars, cropVars, rotVars, trimVars, faceVars, otherVars>>

\* choose_color, the colour dialog answered with colour c.
choose_color(c) ==
    /\ Idle
    /\ mask_color # c
    /\ mask_color' = c
    /\ status_text' = "Mask color set"
    /\ UNCHANGED <<videoVars, frame_index, current_frame, preview, stage_log, shapeVars,
                   blur_strength, mask_type, mask_type_var, mask_shape, rangeVars,
                   cropVars, rotVars, trimVars, faceVars, otherVars>>

set_drawing_mode(mode) ==
    /\ Idle
    /\ current_shape_type # mode
    /\ current_shape_type' = mode
    /\ status_text' = "Selected drawing mode"
    /\ UNCHANGED <<videoVars, frame_index, current_frame, preview, stage_log, shapes,
                   drawing, current_shape, maskVars, rangeVars, cropVars, rotVars,
                   trimVars, faceVars, otherVars>>

\* A shape tuple of 7 elements, as every statement that appends one builds it.
Shape(type, points, mt, strength, color, start, end) ==
    [type |-> type, points |-> points, mask_type |-> mt, strength |-> strength,
     color |-> color, ranged |-> TRUE, start |-> start, end |-> end]

Clamp(v, lo, hi) == Max(lo, Min(v, hi))

\* The view after self.shapes became shps.
ShownWithShapes(shps, status) ==
    \E det \in Answers(cap, Settings, frame_index, tracked_faces) :
      Shown(show_current_frame(cap, [Settings EXCEPT !.shapes = shps], frame_index,
                               total_frames, tracked_faces, det, View),
            status)

\* on_mouse_down at image coordinates (x, y), which may lie off the image.
on_mouse_down(x, y) ==
    /\ Idle
    /\ current_frame # NoFrame
    /\ ~(x < 0 \/ x >= current_frame.w \/ y < 0 \/ y >= current_frame.h)
    /\ IF drawing_crop
       THEN /\ crop_x' = x /\ crop_y' = y
            /\ UNCHANGED <<drawing, current_shape>>
       ELSE /\ Len(shapes) < MaxShapes
            /\ UNCHANGED <<crop_x, crop_y>>
            /\ IF current_shape_type = "polygon" /\ drawing
               THEN /\ Len(current_shape) < MaxShapes + 2
                    /\ current_shape' = Append(current_shape, <<x, y>>)
                    /\ UNCHANGED drawing
               ELSE /\ drawing' = TRUE
                    /\ current_shape' = << <<x, y>> >>
    /\ UNCHANGED <<videoVars, viewVars, shapes, current_shape_type, maskVars, rangeVars,
                   crop_enabled, crop_width, crop_height, drawing_crop, crop_type,
                   crop_mask_type, crop_all_frames, crop_start_frame, crop_end_frame,
                   rotVars, trimVars, faceVars, otherVars>>

\* on_mouse_move: only a freehand stroke in progress changes the state.
on_mouse_move(x, y) ==
    /\ Idle
    /\ drawing /\ ~drawing_crop
    /\ current_shape_type = "freehand"
    /\ Len(current_shape) < MaxShapes + 2
    /\ current_shape' = Append(current_shape,
                               <<Clamp(x, 0, current_frame.w - 1),
                                 Clamp(y, 0, current_frame.h - 1)>>)
    /\ UNCHANGED <<videoVars, viewVars, shapes, drawing, current_shape_type, maskVars,
                   rangeVars, cropVars, rotVars, trimVars, faceVars, otherVars>>

\* on_mouse_up at image coordinates (ex, ey).
on_mouse_up(ex, ey) ==
    /\ Idle
    /\ drawing \/ drawing_crop
    /\ LET x == Clamp(ex, 0, current_frame.w - 1)
           y == Clamp(ey, 0, current_frame.h - 1)
       IN IF drawing_crop
          THEN /\ drawing_crop' = FALSE
               /\ crop_x' = IF x < crop_x THEN x ELSE crop_x
               /\ crop_y' = IF y < crop_y THEN y ELSE crop_y
               /\ crop_width' = Abs(x - crop_x)
               /\ crop_height' = Abs(y - crop_y)
               /\ crop_enabled' = TRUE
               /\ \E det \in Answers(cap, Settings, frame_index, tracked_faces) :
                    Shown(show_current_frame(cap,
                             [Settings EXCEPT !.crop_enabled = TRUE,
                                              !.crop_x = IF x < crop_x THEN x ELSE crop_x,
                                              !.crop_y = IF y < crop_y THEN y ELSE crop_y,
                                              !.crop_width = Abs(x - crop_x),
                                              !.crop_height = Abs(y - crop_y)],
                             frame_index, total_frames, tracked_faces, det, View),
                          "")
               /\ UNCHANGED <<shapes, drawing, current_shape>>
          ELSE /\ UNCHANGED <<crop_x, crop_y, crop_width, crop_height, crop_enabled,
                              drawing_crop>>
               /\ IF current_shape_type = "rectangle"
                  THEN /\ drawing' = FALSE
                       /\ shapes' = Append(shapes,
                              Shape("rectangle", Append(current_shape, <<x, y>>),
                                    mask_type_var, blur_strength, mask_color,
                                    frame_index, total_frames - 1))
                       /\ current_shape' = <<>>
                       /\ ShownWithShapes(shapes', "")
                  ELSE IF current_shape_type = "freehand"
                  THEN /\ drawing' = FALSE
                       /\ IF Len(current_shape) > 2
                          THEN /\ shapes' = Append(shapes,
                                      Shape("freehand", current_shape, mask_type_var,
                                            blur_strength, mask_color, frame_index,
                                            total_frames - 1))
                               /\ current_shape' = <<>>
                               /\ ShownWithShapes(shapes', "")
                          ELSE UNCHANGED <<shapes, current_shape, cap_pos, current_frame,
                                           preview, stage_log, tracked_faces, status_text>>
                  ELSE /\ FALSE
                       /\ UNCHANGED <<shapes, drawing, current_shape, cap_pos,
                                      current_frame, preview, stage_log, tracked_faces,
                                      status_text>>
    /\ UNCHANGED <<sessionVars, frame_index, current_shape_type, maskVars, rangeVars,
                   crop_type, crop_mask_type, crop_all_frames, crop_start_frame,
                   crop_end_frame, rotVars, trimVars, auto_detect_faces, otherVars>>

\* on_double_click: finishes the polygon in progress.
on_double_click ==
    /\ Idle
    /\ current_shape_type = "polygon" /\ drawing
    /\ drawing' = FALSE
    /\ IF Len(current_shape) >= 3
       THEN /\ shapes' = Append(shapes,
                   Shape("polygon", current_shape, mask_type_var, blur_strength,
                         mask_color, frame_index, total_frames - 1))
            /\ current_shape' = <<>>
            /\ ShownWithShapes(shapes', "")
       ELSE UNCHANGED <<shapes, current_shape, cap_pos, current_frame, preview, stage_log,
                        tracked_faces, status_text>>
    /\ UNCHANGED <<sessionVars, frame_index, current_shape_type, maskVars, rangeVars,
                   cropVars, rotVars, trimVars, auto_detect_faces, otherVars>>

\* set_shape_frame_range with the shape at position idx (from 1) selected
\* and the integers start and end in the two entries.
\* A range dialog that stores the two numbers as they were typed.
set_shape_frame_range_as_typed(idx, start, end) ==
    /\ Idle
    /\ idx \in 1 .. Len(shapes)
    /\ shapes' = [shapes EXCEPT ![idx] =
                     [@ EXCEPT !.ranged = TRUE, !.start = start, !.end = end]]
    /\ ShownWithShapes(shapes', "Shape set to appear in frames")
    /\ UNCHANGED <<sessionVars, frame_index, drawing, current_shape, current_shape_type,
                   maskVars, rangeVars, cropVars, rotVars, trimVars, auto_detect_faces,
                   otherVars>>

set_shape_frame_range(idx, start, end) ==
    /\ Idle
    /\ idx \in 1 .. Len(shapes)
    /\ LET s == Max(0, Min(start, total_frames - 1))
           e == Max(s, Min(end, total_frames - 1))
       IN /\ shapes' = [shapes EXCEPT ![idx] =
                           [@ EXCEPT !.ranged = TRUE, !.start = s, !.end = e]]
          /\ ShownWithShapes(shapes', "Shape set to appear in frames")
    /\ UNCHANGED <<sessionVars, frame_index, drawing, current_shape, current_shape_type,
                   maskVars, rangeVars, cropVars, rotVars, trimVars, auto_detect_faces,
                   otherVars>>

\* del self.shapes[idx]
Without(q, idx) == [i \in 1 .. Len(q) - 1 |-> IF i < idx THEN q[i] ELSE q[i + 1]]

\* delete_selected_shape with the shape at position idx (from 1) selected.
delete_selected_shape(idx) ==
    /\ Idle
    /\ idx \in 1 .. Len(shapes)
    /\ shapes' = Without(shapes, idx)
    /\ ShownWithShapes(shapes', "")
    /\ UNCHANGED <<sessionVars, frame_index, drawing, current_shape, current_shape_type,
                   maskVars, rangeVars, cropVars, rotVars, trimVars, auto_detect_faces,
                   otherVars>>

clear_shapes ==
    /\ Idle
    /\ shapes # <<>>
    /\ shapes' = <<>>
    /\ ShownWithShapes(<<>>, "")
    /\ UNCHANGED <<sessionVars, frame_index, drawing, current_shape, current_shape_type,
                   maskVars, rangeVars, cropVars, rotVars, trimVars, auto_detect_faces,
                   otherVars>>

\* np.cos and np.sin of 0, 10, ..., 350 degrees in millionths, each rounded
\* to the side on which int(r * value) is what the double gives for every
\* radius r of a box (the double of cos(120) is just above -0.5, that of
\* sin(30) just below 0.5).
CosE6 ==
    <<1000000, 984808, 939693, 866025, 766044, 642788, 500000, 342020, 173648, 0,
      -173648, -342020, -499999, -642788, -766044, -866025, -939693, -984808,
      -1000000, -984808, -939693, -866025, -766044, -642788, -500000, -342020,
      -173648, 0, 173648, 342020, 500000, 642788, 766044, 866025, 939693, 984808>>
SinE6 ==
    <<0, 173648, 342020, 499999, 642788, 766044, 866025, 939693, 984808, 1000000,
      984808, 939693, 866025, 766044, 642788, 499999, 342020, 173648, 0,
      -173648, -342020, -500000, -642788, -766044, -866025, -939693, -984808,
      -1000000, -984808, -939693, -866025, -766044, -642788, -500000, -342020,
      -173648>>

\* int(r * t), t in millionths.
Scaled(r, t) == TruncDiv(r * t, 1000000)

\* oval_points of the box (x, y, w, h): one point every 10 degrees.
OvalPoints(x, y, w, h) ==
    [k \in 1 .. 36 |-> <<x + w \div 2 + Scaled(w \div 2, CosE6[k]),
                         y + h \div 2 + Scaled(h \div 2, SinE6[k])>>]

\* face_points of the box: the top of the head over 0 .. 170 degrees with
\* the radii w // 2 and int(h * 0.6), chin and jaw over 180 .. 350 degrees
\* with int(w * 0.45) and int(h * 0.5).
PrecisePoints(x, y, w, h) ==
    [k \in 1 .. 36 |->
        IF k <= 18
        THEN <<x + w \div 2 + Scaled(w \div 2, CosE6[k]),
               y + h \div 2 - Scaled(TruncDiv(h * 6, 10), SinE6[k])>>
        ELSE <<x + w \div 2 + Scaled(TruncDiv(w * 45, 100), CosE6[k]),
               y + h \div 2 - Scaled(TruncDiv(h, 2), SinE6[k])>>]

\* The shapes detect_faces_current_frame appends for the faces from the
\* k-th on, each under self.mask_shape and from the frame shown to the end
\* of the video.
RECURSIVE FaceShapes(_, _)
FaceShapes(faces, k) ==
    IF k > Len(faces) THEN <<>>
    ELSE LET b == faces[k].bbox
         IN (IF mask_shape = "rectangle"
             THEN <<Shape("rectangle", << <<b[1], b[2]>>, <<b[1] + b[3], b[2] + b[4]>> >>,
                          mask_type_var, blur_strength, mask_color, frame_index,
                          total_frames - 1)>>
             ELSE IF mask_shape = "oval"
             THEN <<Shape("polygon", OvalPoints(b[1], b[2], b[3], b[4]), mask_type_var,
                          blur_strength, mask_color, frame_index, total_frames - 1)>>
             ELSE IF mask_shape = "precise"
             THEN <<Shape("polygon", PrecisePoints(b[1], b[2], b[3], b[4]), mask_type_var,
                          blur_strength, mask_color, frame_index, total_frames - 1)>>
             ELSE <<>>)
            \o FaceShapes(faces, k + 1)

\* detect_faces_current_frame, det being what the pose tracker and DeepSort
\* answer: the faces of the frame shown become shapes.
detect_faces_current_frame(det) ==
    /\ Idle
    /\ current_frame # NoFrame
    /\ shapes' = shapes \o FaceShapes(detect_faces(current_frame, Settings, frame_index,
                                                   det), 1)
    /\ ShownWithShapes(shapes', "Added detected faces as shapes")
    /\ UNCHANGED <<sessionVars, frame_index, drawing, current_shape, current_shape_type,
                   maskVars, rangeVars, cropVars, rotVars, trimVars, auto_detect_faces,
                   otherVars>>

\* self.show_current_frame() at the end of a handler that leaves the
\* authoring state S and has set the status of view V before the call.
Refresh(S, V, status) ==
    \E det \in Answers(cap, S, frame_index, tracked_faces) :
      Shown(show_current_frame(cap, S, frame_index, total_frames, tracked_faces, det, V),
            status)

\* toggle_face_detection, the checkbutton having moved to v.
toggle_face_detection(v) ==
    /\ Idle
    /\ IF v /\ ~rtmpose_initialized
       THEN /\ auto_detect_faces' = FALSE
            /\ status_text' = "Face detection requires RTMPose which is not available"
            /\ UNCHANGED <<cap_pos, current_frame, preview, stage_log, tracked_faces>>
       ELSE /\ auto_detect_faces' = v
            /\ Refresh([Settings EXCEPT !.auto_detect_faces = v],
                       [View EXCEPT !.status_text = "Automatic face detection"], "")
    /\ UNCHANGED <<sessionVars, frame_index, shapeVars, maskVars, rangeVars, cropVars,
                   rotVars, trimVars, otherVars>>

\* toggle_crop, the checkbutton having moved self.crop_enabled to v.
toggle_crop(v) ==
    /\ Idle
    /\ IF v /\ (crop_width <= 0 \/ crop_height <= 0)
       THEN /\ crop_enabled' = FALSE
            /\ status_text' = "Please draw a crop region first"
            /\ UNCHANGED <<cap_pos, current_frame, preview, stage_log, tracked_faces>>
       ELSE /\ crop_enabled' = v
            /\ Refresh([Settings EXCEPT !.crop_enabled = v],
                       [View EXCEPT !.status_text =
                           IF v THEN "Video cropping enabled" ELSE "Video cropping disabled"],
                       "")
    /\ UNCHANGED <<sessionVars, frame_index, shapeVars, maskVars, rangeVars, crop_x, crop_y,
                   crop_width, crop_height, drawing_crop, crop_type, crop_mask_type,
                   crop_all_frames, crop_start_frame, crop_end_frame, rotVars, trimVars,
                   auto_detect_faces, otherVars>>

\* The crop widgets without a command: they write their variable only.
select_crop_type(t) ==
    /\ Idle
    /\ crop_type # t
    /\ crop_type' = t
    /\ UNCHANGED <<videoVars, viewVars, shapeVars, maskVars, rangeVars, crop_enabled, crop_x,
                   crop_y, crop_width, crop_height, drawing_crop, crop_mask_type,
                   crop_all_frames, crop_start_frame, crop_end_frame, rotVars, trimVars,
                   faceVars, otherVars>>

select_crop_mask_type(t) ==
    /\ Idle
    /\ crop_mask_type # t
    /\ crop_mask_type' = t
    /\ UNCHANGED <<videoVars, viewVars, shapeVars, maskVars, rangeVars, crop_enabled, crop_x,
                   crop_y, crop_width, crop_height, drawing_crop, crop_type,
                   crop_all_frames, crop_start_frame, crop_end_frame, rotVars, trimVars,
                   faceVars, otherVars>>

\* The two crop range radiobuttons.
select_crop_all_frames(v) ==
    /\ Idle
    /\ crop_all_frames # v
    /\ crop_all_frames' = v
    /\ UNCHANGED <<videoVars, viewVars, shapeVars, maskVars, rangeVars, crop_enabled, crop_x,
                   crop_y, crop_width, crop_height, drawing_crop, crop_type,
                   crop_mask_type, crop_start_frame, crop_end_frame, rotVars, trimVars,
                   faceVars, otherVars>>

\* The two crop range entries.
type_crop_range(start, end) ==
    /\ Idle
    /\ <<start, end>> # <<crop_start_frame, crop_end_frame>>
    /\ crop_start_frame' = start
    /\ crop_end_frame' = end
    /\ UNCHANGED <<videoVars, viewVars, shapeVars, maskVars, rangeVars, crop_enabled, crop_x,
                   crop_y, crop_width, crop_height, drawing_crop, crop_type,
                   crop_mask_type, crop_all_frames, rotVars, trimVars, faceVars,
                   otherVars>>

start_crop_drawing ==
    /\ Idle
    /\ IF current_frame = NoFrame
       THEN /\ status_text' = "Please open a video first"
            /\ UNCHANGED <<drawing_crop, crop_x, crop_y, crop_width, crop_height>>
       ELSE /\ drawing_crop' = TRUE
            /\ crop_x' = 0 /\ crop_y' = 0 /\ crop_width' = 0 /\ crop_height' = 0
            /\ status_text' = "Click and drag to define crop region"
    /\ UNCHANGED <<videoVars, frame_index, current_frame, preview, stage_log, shapeVars,
                   maskVars, rangeVars, crop_enabled, crop_type, crop_mask_type,
                   crop_all_frames, crop_start_frame, crop_end_frame, rotVars, trimVars,
                   faceVars, otherVars>>

reset_crop ==
    /\ Idle
    /\ crop_x' = 0 /\ crop_y' = 0 /\ crop_width' = 0 /\ crop_height' = 0
    /\ crop_enabled' = FALSE
    /\ Refresh([Settings EXCEPT !.crop_enabled = FALSE, !.crop_x = 0, !.crop_y = 0,
                                !.crop_width = 0, !.crop_height = 0], View, "")
    /\ UNCHANGED <<sessionVars, frame_index, shapeVars, maskVars, rangeVars, drawing_crop,
                   crop_type, crop_mask_type, crop_all_frames, crop_start_frame,
                   crop_end_frame, rotVars, trimVars, auto_detect_faces, otherVars>>

\* toggle_rotation, the checkbutton having moved self.rotation_enabled to v.
toggle_rotation(v) ==
    /\ Idle
    /\ rotation_enabled' = v
    /\ Refresh([Settings EXCEPT !.rotation_enabled = v],
               [View EXCEPT !.status_text =
                   IF v THEN "Video rotation enabled" ELSE "Video rotation disabled"], "")
    /\ UNCHANGED <<sessionVars, frame_index, shapeVars, maskVars, rangeVars, cropVars,
                   rotation_angle, trimVars, auto_detect_faces, otherVars>>

\* The rotation entry, which writes self.rotation_angle as it is typed in.
type_rotation_angle(a) ==
    /\ Idle
    /\ rotation_angle # a
    /\ rotation_angle' = a
    /\ UNCHANGED <<videoVars, viewVars, shapeVars, maskVars, rangeVars, cropVars,
                   rotation_enabled, trimVars, faceVars, otherVars>>

\* set_rotation(angle): "Rotate Left" passes -90, "Rotate Right" 90, "Reset"
\* 0 and "Apply" the content of the entry.
set_rotation(angle) ==
    /\ Idle
    /\ LET new_angle == IF angle \in {-90, 90} THEN (rotation_angle + angle) % 360
                        ELSE angle
       IN /\ rotation_angle' = new_angle
          /\ rotation_enabled' = (new_angle # 0)
          /\ Refresh([Settings EXCEPT !.rotation_angle = new_angle,
                                      !.rotation_enabled = (new_angle # 0)],
                     [View EXCEPT !.status_text = "Rotation set"], "")
    /\ UNCHANGED <<sessionVars, frame_index, shapeVars, maskVars, rangeVars, cropVars,
                   trimVars, auto_detect_faces, otherVars>>

\* toggle_frame_range, a radiobutton having moved self.blur_entire_video to
\* v: the two entries are enabled under "Process specific range" only.
toggle_frame_range(v) ==
    /\ Idle
    /\ blur_entire_video # v
    /\ blur_entire_video' = v
    /\ UNCHANGED <<videoVars, viewVars, shapeVars, maskVars, start_frame, end_frame,
                   cropVars, rotVars, trimVars, faceVars, otherVars>>

\* The start and end entries of the processing range, while enabled.
type_process_range(start, end) ==
    /\ Idle
    /\ ~blur_entire_video
    /\ <<start, end>> # <<start_frame, end_frame>>
    /\ start_frame' = start
    /\ end_frame' = end
    /\ UNCHANGED <<videoVars, viewVars, shapeVars, maskVars, blur_entire_video, cropVars,
                   rotVars, trimVars, faceVars, otherVars>>

\* ----------------------------------------------------------------- trimming
\* toggle_trim, the checkbutton having moved self.trim_enabled to v.
toggle_trim(v) ==
    /\ Idle
    /\ IF v
       THEN IF cap = "none"
            THEN /\ trim_enabled' = FALSE
                 /\ status_text' = "Please open a video first"
                 /\ UNCHANGED <<trim_start_frame, trim_end_frame>>
            ELSE /\ trim_enabled' = TRUE
                 /\ trim_start_frame' = 0
                 /\ trim_end_frame' = total_frames - 1
                 /\ status_text' = "Video trimming enabled"
       ELSE /\ trim_enabled' = FALSE
            /\ status_text' = "Video trimming disabled"
            /\ UNCHANGED <<trim_start_frame, trim_end_frame>>
    /\ UNCHANGED <<videoVars, frame_index, current_frame, preview, stage_log, shapeVars,
                   maskVars, rangeVars, cropVars, rotVars, dragging_start, dragging_end,
                   faceVars, otherVars>>

\* The frame a pointer at x on the timeline of the given width names:
\* int((x / width) * total_frames), kept inside the video.
TrimFramePos(x, width) ==
    Max(0, Min(TruncDiv(x * total_frames, width), total_frames - 1))

\* Whether a pointer at x is within 5 pixels of the handle of frame f, which
\* is drawn at (f / max(1, total_frames - 1)) * width.
OnHandle(x, f, width) ==
    LET d == Max(1, total_frames - 1)
    IN Abs(x * d - f * width) <= HandleReach * d

\* on_trim_click at x on a timeline of the given width.
on_trim_click(x, width) ==
    /\ Idle
    /\ trim_enabled /\ cap # "none"
    /\ IF OnHandle(x, trim_start_frame, width)
       THEN /\ dragging_start' = TRUE /\ dragging_end' = FALSE
            /\ UNCHANGED <<viewVars, cap_pos, tracked_faces>>
       ELSE IF OnHandle(x, trim_end_frame, width)
       THEN /\ dragging_start' = FALSE /\ dragging_end' = TRUE
            /\ UNCHANGED <<viewVars, cap_pos, tracked_faces>>
       ELSE /\ frame_index' = TrimFramePos(x, width)
            /\ \E det \in Answers(cap, Settings, frame_index', tracked_faces) :
                 Shown(show_current_frame(cap, Settings, frame_index', total_frames,
                                          tracked_faces, det, View), "")
            /\ dragging_start' = FALSE /\ dragging_end' = FALSE
    /\ UNCHANGED <<sessionVars, shapeVars, maskVars, rangeVars, cropVars, rotVars,
                   trim_enabled, trim_start_frame, trim_end_frame, auto_detect_faces,
                   otherVars>>

\* on_trim_drag to x on a timeline of the given width.
on_trim_drag(x, width) ==
    /\ Idle
    /\ trim_enabled /\ (dragging_start \/ dragging_end)
    /\ IF dragging_start
       THEN /\ trim_start_frame' = Min(TrimFramePos(x, width), trim_end_frame - 1)
            /\ UNCHANGED trim_end_frame
       ELSE /\ trim_end_frame' = Max(TrimFramePos(x, width), trim_start_frame + 1)
            /\ UNCHANGED trim_start_frame
    /\ UNCHANGED <<videoVars, viewVars, shapeVars, maskVars, rangeVars, cropVars, rotVars,
                   trim_enabled, dragging_start, dragging_end, faceVars, otherVars>>

on_trim_release ==
    /\ Idle
    /\ dragging_start \/ dragging_end
    /\ dragging_start' = FALSE
    /\ dragging_end' = FALSE
    /\ UNCHANGED <<videoVars, viewVars, shapeVars, maskVars, rangeVars, cropVars, rotVars,
                   trim_enabled, trim_start_frame, trim_end_frame, faceVars, otherVars>>

\* --------------------------------------------------------- get_video_writer
\* codec_map.get(ext, 'avc1')
codec_map(e) ==
    CASE e = ".mp4" -> "avc1"
      [] e = ".avi" -> "XVID"
      [] e = ".mov" -> "avc1"
      [] e = ".mkv" -> "XVID"
      [] e = ".wmv" -> "WMV2"
      [] OTHER -> "avc1"

\* The list the fallback loop walks.
Fallbacks == <<"mp4v", "XVID", "avc1", "H264">>

\* A writer that opens whatever the codec.
VideoWriterAlwaysOpen(e, codec, ok, width, height) ==
    [path |-> e, opened |-> TRUE, codec |-> codec, w |-> width, h |-> height,
     released |-> FALSE]

\* cv2.VideoWriter(output_path, fourcc, fps, (width, height)) for a path of
\* extension e: it opens when the codec is one of those that open on this
\* machine (ok).
VideoWriter(e, codec, ok, width, height) ==
    [path |-> e, opened |-> codec \in ok, codec |-> codec, w |-> width, h |-> height,
     released |-> FALSE]

\* A fallback loop that goes on to the next codec after one has opened.
RECURSIVE TryEveryFallback(_, _, _, _, _, _, _, _)
TryEveryFallback(k, e, fourcc_str, ok, width, height, w, tried) ==
    IF k > Len(Fallbacks) THEN [out |-> w, attempts |-> tried]
    ELSE IF Fallbacks[k] = fourcc_str
    THEN TryEveryFallback(k + 1, e, fourcc_str, ok, width, height, w, tried)
    ELSE TryEveryFallback(k + 1, e, fourcc_str, ok, width, height,
                          VideoWriter(e, Fallbacks[k], ok, width, height),
                          Append(tried, Fallbacks[k]))

\* The fallback loop from position k of the list on, after the codecs in
\* tried were attempted and left the writer w.
RECURSIVE TryFallbacks(_, _, _, _, _, _, _, _)
TryFallbacks(k, e, fourcc_str, ok, width, height, w, tried) ==
    IF k > Len(Fallbacks) THEN [out |-> w, attempts |-> tried]
    ELSE IF Fallbacks[k] = fourcc_str
    THEN TryFallbacks(k + 1, e, fourcc_str, ok, width, height, w, tried)
    ELSE IF VideoWriter(e, Fallbacks[k], ok, width, height).opened
    THEN [out |-> VideoWriter(e, Fallbacks[k], ok, width, height),
          attempts |-> Append(tried, Fallbacks[k])]
    ELSE TryFallbacks(k + 1, e, fourcc_str, ok, width, height,
                      VideoWriter(e, Fallbacks[k], ok, width, height),
                      Append(tried, Fallbacks[k]))

\* get_video_writer(output_path, width, height, fps) for a path of extension
\* e: the writer returned and the codecs attempted, in order.
get_video_writer(e, ok, width, height) ==
    IF VideoWriter(e, codec_map(e), ok, width, height).opened
    THEN [out |-> VideoWriter(e, codec_map(e), ok, width, height),
          attempts |-> <<codec_map(e)>>]
    ELSE TryFallbacks(1, e, codec_map(e), ok, width, height,
                      VideoWriter(e, codec_map(e), ok, width, height), <<codec_map(e)>>)

\* ------------------------------------------------------------ process_video
\* A range resolution that looks at the explicit range before the trim.
ResolveExplicitFirst ==
    IF ~blur_entire_video THEN <<start_frame, end_frame>>
    ELSE IF trim_enabled THEN <<trim_start_frame, trim_end_frame>>
    ELSE <<0, total_frames - 1>>

\* "Determine frame range": <<start_frame, end_frame>>.
ResolveRange ==
    IF trim_enabled THEN <<trim_start_frame, trim_end_frame>>
    ELSE IF ~blur_entire_video THEN <<start_frame, end_frame>>
    ELSE <<0, total_frames - 1>>

\* "Determine output dimensions", for a capture of width x height.
OutputSize(width, height) ==
    IF /\ crop_enabled /\ crop_width > 0 /\ crop_height > 0
       /\ crop_type = "traditional"
    THEN <<crop_width, crop_height>>
    ELSE <<width, height>>

\* CAP_PROP_FRAME_WIDTH and CAP_PROP_FRAME_HEIGHT of self.cap.
CapWidth == IF cap = "opened" THEN FrameW ELSE 0
CapHeight == IF cap = "opened" THEN FrameH ELSE 0

\* A run that resets no tracker.
NoTrackerResets == <<>>

\* "Reset trackers": what process_video asks of the detector and of the
\* tracker before its loop.
TrackerResets ==
    (IF rtmpose_initialized THEN <<[op |-> "pose_tracker.reset"]>> ELSE <<>>)
    \o (IF has_deepsort THEN <<[op |-> "delete_all_tracks"]>> ELSE <<>>)

\* process_video up to its frame loop, on a machine where the codecs in ok
\* open: validation, the writer, the range, the seek to its start.
process_video(ok) ==
    /\ Idle
    /\ IF input_video = "none" \/ output_path = "none"
       THEN /\ status_text' = "Please select input video and output path"
            /\ reports' = <<status_text'>>
            /\ UNCHANGED <<cap_pos, pc, out, run_start, run_end, current_frame_idx,
                           frame_count, errors, read_log, written, preview_ref,
                           read_failed, telemetry, face_log, releases, codecs_ok,
                           attempts>>
       ELSE LET size == OutputSize(CapWidth, CapHeight)
                made == get_video_writer(ext, ok, size[1], size[2])
            IN /\ codecs_ok' = ok
               /\ attempts' = made.attempts
               /\ out' = made.out
               /\ IF ~made.out.opened
                  THEN /\ status_text' = "Failed to create output video"
                       /\ reports' = <<status_text'>>
                       /\ cap_pos' = 0
                       /\ UNCHANGED <<pc, run_start, run_end, current_frame_idx,
                                      frame_count, errors, read_log, written,
                                      preview_ref, read_failed, telemetry, face_log,
                                      releases>>
                  ELSE /\ run_start' = ResolveRange[1]
                       /\ run_end' = ResolveRange[2]
                       /\ cap_pos' = ResolveRange[1]
                       /\ current_frame_idx' = ResolveRange[1]
                       /\ frame_count' = 0
                       /\ errors' = 0
                       /\ read_log' = <<>>
                       /\ written' = <<>>
                       /\ preview_ref' = <<>>
                       /\ read_failed' = FALSE
                       /\ telemetry' = NoTelemetry
                       /\ face_log' = TrackerResets
                       /\ reports' = <<>>
                       /\ releases' = 0
                       /\ pc' = "running"
                       /\ UNCHANGED status_text
    /\ UNCHANGED <<sessionVars, frame_index, current_frame, preview, stage_log, shapeVars,
                   maskVars, rangeVars, cropVars, rotVars, trimVars, envVars, faceVars,
                   ext, fxVars>>

\* A frame loop that leaves the last frame of the range out.
LoopStopsShort == current_frame_idx < run_end

\* "while current_frame_idx <= end_frame"
LoopContinues == current_frame_idx <= run_end

\* Whether self.cap.read() has a frame to return.
CanRead == cap = "opened" /\ cap_pos \in 0 .. total_frames - 1

\* The composed frame r handed to out.write, which raises or not.
\* An error count that a failed write leaves alone.
WriteErrorsKept(n, write_raises) == n

\* errors after out.write: "errors += 1" in the handler of its exception.
WriteErrors(n, write_raises) == IF write_raises THEN n + 1 ELSE n

Submit(r, write_raises) ==
    /\ read_log' = Append(read_log, cap_pos)
    /\ tracked_faces' = r.tracked_faces
    /\ written' = Append(written, [idx |-> current_frame_idx, frame |-> r.result,
                                   log |-> r.log, raised |-> write_raises])

\* What is kept of a composition r of process_frame.
Reference(r) == [frame |-> r.result, log |-> r.log]

\* "Store face tracking data" for one held face: a face id seen before gets
\* the frame index appended and its bbox replaced; a new one gets an entry
\* of its own.
\* A cumulative entry that lists the frame in which the id first appeared
\* only.
StoreFaceFirstSeen(faces, face, idx) ==
    IF face.id \in DOMAIN faces
    THEN [faces EXCEPT ![face.id] = [@ EXCEPT !.bbox = face.bbox]]
    ELSE (face.id :> [frames |-> <<idx>>, bbox |-> face.bbox,
                      confidence |-> face.confidence]) @@ faces

StoreFace(faces, face, idx) ==
    IF face.id \in DOMAIN faces
    THEN [faces EXCEPT ![face.id] = [@ EXCEPT !.frames = Append(@, idx),
                                              !.bbox = face.bbox]]
    ELSE (face.id :> [frames |-> <<idx>>, bbox |-> face.bbox,
                      confidence |-> face.confidence]) @@ faces

RECURSIVE StoreFaces(_, _, _, _)
StoreFaces(faces, held, k, idx) ==
    IF k > Len(held) THEN faces
    ELSE StoreFaces(StoreFace(faces, held[k], idx), held, k + 1, idx)

\* frame_faces: what the frame's entry lists for each held face.
FrameFaces(held) ==
    [k \in 1 .. Len(held) |-> [face_id |-> held[k].id, bbox |-> held[k].bbox,
                               confidence |-> held[k].confidence]]

\* face_tracking_data after the frame idx, composed with the tracks held.
StoreTelemetry(data, S, held, idx) ==
    IF Detecting(S) /\ held # <<>>
    THEN [frames |-> (idx :> [faces |-> FrameFaces(held)]) @@ data.frames,
          faces |-> StoreFaces(data.faces, held, 1, idx)]
    ELSE data

\* What the frame loop asked of the detector for one frame: whether
\* detect_faces was called, whether the collaborators raised inside it, and
\* the tracks held before and after.
Asked(S, idx, count, faces, det, held) ==
    [op |-> "frame", idx |-> idx, count |-> count,
     invoked |-> Detecting(S) /\ Invoked(count, faces),
     raised |-> Detecting(S) /\ Invoked(count, faces) /\ det.raises,
     before |-> faces, after |-> held]

\* One iteration of the frame loop whose read succeeds: the frame read is
\* composed and handed to out.write, which raises or not. preview_ref keeps,
\* beside each frame written, what process_frame makes of the same frame
\* with self.frame_index at its index and the same tracks held.
ExportFrame(write_raises, det) ==
    /\ pc = "running"
    /\ LoopContinues
    /\ CanRead
    /\ Submit(ExportCompose(RawFrame(cap_pos), Settings, current_frame_idx, frame_count,
                            frame_index, tracked_faces, det, CapWidth, CapHeight),
              write_raises)
    /\ preview_ref' = Append(preview_ref,
           Reference(process_frame(RawFrame(cap_pos), Settings, current_frame_idx,
                                   tracked_faces, det)))
    /\ telemetry' = StoreTelemetry(telemetry, Settings, tracked_faces', current_frame_idx)
    /\ face_log' = Append(face_log, Asked(Settings, current_frame_idx, frame_count,
                                          tracked_faces, det, tracked_faces'))
    /\ errors' = WriteErrors(errors, write_raises)
    /\ cap_pos' = cap_pos + 1
    /\ current_frame_idx' = current_frame_idx + 1
    /\ frame_count' = frame_count + 1
    /\ UNCHANGED <<sessionVars, viewVars, shapeVars, maskVars, rangeVars, cropVars, rotVars,
                   trimVars, envVars, auto_detect_faces, pc, out, run_start, run_end,
                   read_failed, reports, releases, writerVars, fxVars>>

\* The status the finally clause sets.
Completed ==
    IF errors > 0 THEN "Video processing completed with errors"
    ELSE "Video processing completed"

\* What a status of process_video tells the user besides its wording: the
\* exception's text, the error count, the elapsed time, the output path.
Carries(status) ==
    CASE status = "Error during processing" -> {"condition"}
      [] status = "Video processing completed with errors" -> {"errors", "elapsed", "path"}
      [] status = "Video processing completed" -> {"elapsed", "path"}
      [] status = "Face tracking data saved" -> {"path"}
      [] OTHER -> {}

\* A finally clause that leaves the writer as it is.
FinallyKeepsWriter(before) ==
    /\ pc' = "idle"
    /\ UNCHANGED <<out, releases>>
    /\ frame_index' = 0
    /\ \E det \in Answers(cap, Settings, 0, tracked_faces) :
         Shown(show_current_frame(cap, Settings, 0, total_frames, tracked_faces, det,
                  [View EXCEPT !.cap_pos = 0, !.status_text = Completed]),
               "")
    /\ reports' = before \o <<Completed>>
                  \o (IF cap = "none" THEN <<>> ELSE <<status_text'>>)

\* The finally clause, after the statuses in before were set: the writer
\* released, the "completed" status, self.frame_index back at 0 and the
\* first frame shown again, which sets the status once more.
Finally(before) ==
    /\ pc' = "idle"
    /\ out' = [out EXCEPT !.released = TRUE]
    /\ releases' = releases + 1
    /\ frame_index' = 0
    /\ \E det \in Answers(cap, Settings, 0, tracked_faces) :
         Shown(show_current_frame(cap, Settings, 0, total_frames, tracked_faces, det,
                  [View EXCEPT !.cap_pos = 0, !.status_text = Completed]),
               "")
    /\ reports' = before \o <<Completed>>
                  \o (IF cap = "none" THEN <<>> ELSE <<status_text'>>)

\* Whether the run has face tracking data to export after its loop.
Saving == Detecting(Settings) /\ telemetry.faces # <<>>

\* The end of the frame loop (the range is exhausted, or the read returns
\* nothing, which read_fails stands for inside the video; read_failed keeps
\* which of the two), the export of the face tracking data and the finally
\* clause.
ExportFinish(read_fails) ==
    /\ pc = "running"
    /\ ~LoopContinues \/ ~CanRead \/ read_fails
    /\ read_failed' = LoopContinues
    /\ Finally(IF Saving THEN <<"Face tracking data saved">> ELSE <<>>)
    /\ UNCHANGED <<sessionVars, shapeVars, maskVars, rangeVars, cropVars, rotVars, trimVars,
                   envVars, auto_detect_faces, run_start, run_end, current_frame_idx,
                   frame_count, errors, read_log, written, preview_ref, telemetry,
                   face_log, writerVars, fxVars>>

\* An exception inside the try block, caught by "except Exception": raised
\* while a frame just read is composed (where = "compose"), or by the dump
\* of the face tracking data after the loop (where = "telemetry"). The
\* handler sets the "Error during processing" status; the finally clause
\* follows.
ExportRaise(where) ==
    /\ pc = "running"
    /\ IF where = "compose"
       THEN /\ LoopContinues /\ CanRead
            /\ read_log' = Append(read_log, cap_pos)
            /\ UNCHANGED read_failed
       ELSE /\ ~LoopContinues \/ ~CanRead
            /\ Saving
            /\ read_failed' = LoopContinues
            /\ UNCHANGED read_log
    /\ Finally(<<"Error during processing">>)
    /\ UNCHANGED <<sessionVars, shapeVars, maskVars, rangeVars, cropVars, rotVars, trimVars,
                   envVars, auto_detect_faces, run_start, run_end, current_frame_idx,
                   frame_count, errors, written, preview_ref, telemetry, face_log,
                   writerVars, fxVars>>

\* ------------------------------------------------------------ specifications
\* The two ends of the frame, where the pointer presses and releases.
NearCorner == <<0, 0>>
FarCorner == <<FrameW - 1, FrameH - 1>>

\* The compositor at work: one video, a half turn, faces, a rectangle and a
\* crop region drawn from corner to corner, and the export of the whole.
\* The sessions explored author the video first and export it afterwards, as
\* often as they like: the logs of a finished run stay to be read.
Authoring == written = <<>> /\ read_log = <<>> /\ pc = "idle"

Next ==
    \/ Authoring /\ open_video(TRUE, ".mp4", TotalFrames)
    \/ Authoring /\ set_output_path
    \/ Authoring /\ toggle_face_detection(TRUE)
    \/ Authoring /\ set_rotation(180)
    \/ Authoring /\ update_blur_strength(MinStrength)
    \/ Authoring /\ start_crop_drawing
    \/ Authoring /\ select_crop_type("mask")
    \/ Authoring /\ Len(shapes) < 1 /\ on_mouse_down(NearCorner[1], NearCorner[2])
    \/ Authoring /\ on_mouse_up(FarCorner[1], FarCorner[2])
    \/ process_video(Codecs)
    \/ \E det \in Answers(cap, Settings, frame_count, tracked_faces) :
          ExportFrame(FALSE, det)
    \/ ExportFinish(FALSE)

Spec == Init /\ [][Next]_vars

\* Where the pointer lands on the trim timeline, whose width is
\* TrimCanvasWidth: its two ends and near its middle.
TrimXs == {0, TrimCanvasWidth \div 2 - 1, TrimCanvasWidth}

\* The ranges typed into the entries of the processing range: one frame, and
\* a range that runs one frame past the end of the video.
TypedRanges == {<<1, 1>>, <<1, TotalFrames>>}

\* The export range: trimming, the explicit range, and runs in which reads
\* and writes fail.
NextRange ==
    \/ Authoring /\ open_video(TRUE, ".mp4", TotalFrames)
    \/ Authoring /\ set_output_path
    \/ Authoring /\ \E v \in BOOLEAN : toggle_trim(v)
    \/ Authoring /\ \E x \in TrimXs : on_trim_click(x, TrimCanvasWidth)
    \/ Authoring /\ \E x \in TrimXs : on_trim_drag(x, TrimCanvasWidth)
    \/ Authoring /\ on_trim_release
    \/ Authoring /\ \E v \in BOOLEAN : toggle_frame_range(v)
    \/ Authoring /\ \E r \in TypedRanges : type_process_range(r[1], r[2])
    \/ process_video(Codecs)
    \/ \E raises \in BOOLEAN : ExportFrame(raises, NoDetection)
    \/ \E fails \in BOOLEAN : ExportFinish(fails)

SpecRange == Init /\ [][NextRange]_vars

\* The encoder construction: a video of any extension, on a machine where
\* any of the codecs open.
NextWriter ==
    \/ \E e \in Extensions : open_video(TRUE, e, TotalFrames)
    \/ set_output_path
    \/ \E ok \in SUBSET Codecs : process_video(ok)
    \/ ExportFrame(FALSE, NoDetection)
    \/ ExportFinish(FALSE)

SpecWriter == Init /\ [][NextWriter]_vars

\* The crop and its activation range against the export range.
NextCrop ==
    \/ Authoring /\ open_video(TRUE, ".mp4", TotalFrames)
    \/ Authoring /\ set_output_path
    \/ Authoring /\ start_crop_drawing
    \/ Authoring /\ on_mouse_down(NearCorner[1], NearCorner[2])
    \/ Authoring /\ on_mouse_up(FarCorner[1], FarCorner[2])
    \/ Authoring /\ \E t \in {"traditional", "mask"} : select_crop_type(t)
    \/ Authoring /\ \E v \in BOOLEAN : select_crop_all_frames(v)
    \/ Authoring /\ \E r \in TypedRanges : type_crop_range(r[1], r[2])
    \/ Authoring /\ \E v \in BOOLEAN : toggle_frame_range(v)
    \/ Authoring /\ \E r \in TypedRanges : type_process_range(r[1], r[2])
    \/ process_video(Codecs)
    \/ ExportFrame(FALSE, NoDetection)
    \/ ExportFinish(FALSE)

SpecCrop == Init /\ [][NextCrop]_vars

\* Runs and the ways they end: the range exhausted, a read that fails, a
\* write that raises, an exception while a frame is composed or while the
\* face tracking data is dumped.
NextRun ==
    \/ Authoring /\ open_video(TRUE, ".mp4", TotalFrames)
    \/ Authoring /\ set_output_path
    \/ Authoring /\ toggle_face_detection(TRUE)
    \/ Authoring /\ next_frame
    \/ Authoring /\ toggle_frame_range(FALSE)
    \/ Authoring /\ \E r \in TypedRanges : type_process_range(r[1], r[2])
    \/ process_video(Codecs)
    \/ \E raises \in BOOLEAN, det \in Answers(cap, Settings, frame_count, tracked_faces) :
          ExportFrame(raises, det)
    \/ \E fails \in BOOLEAN : ExportFinish(fails)
    \/ \E where \in {"compose", "telemetry"} : ExportRaise(where)

\* RTMPose is installed, DeepSort is not.
InitRun == Constructed(TRUE, FALSE) /\ NoCall

SpecRun == InitRun /\ [][NextRun]_vars

\* An iteration of the frame loop: a frame is read, whatever becomes of it.
LoopStep ==
    /\ pc = "running" /\ LoopContinues /\ CanRead
    /\ Len(read_log') = Len(read_log) + 1

\* process_video is one call on the main thread: once started it goes on
\* until it returns. While the loop condition holds and the reads succeed,
\* iterations keep coming (weak fairness of the iteration, whose
\* enabling condition is written out); once the loop is over, the finally
\* clause runs.
SpecRunFair ==
    /\ InitRun /\ [][NextRun]_vars
    /\ []<>(~(pc = "running" /\ LoopContinues /\ CanRead)) \/ []<><<LoopStep>>_vars
    /\ WF_vars(ExportFinish(FALSE))

\* A video long enough for a run to reach its second periodic detection.
LongFrames == detection_frequency + 1

\* The person at the left seen again, one pixel further and less sharply,
\* and the track the tracker keeps for that person.
PersonLeftMoved == <<[x |-> 1, y |-> 0, s |-> 600], [x |-> 1, y |-> 0, s |-> 400]>>
TrackLeftMoved == [confirmed |-> TRUE, track_id |-> 7, tlwh |-> <<1, 0, 2, 2>>,
                   det_conf |-> 500]

\* What the collaborators answer to a frame of a run when detect_faces is
\* called for it: they raise, or see the person at the left, where the
\* preview saw that person or moved.
Sightings(S, n, faces) ==
    IF Detecting(S) /\ Invoked(n, faces)
    THEN {[raises |-> TRUE, persons |-> <<>>, tracks |-> <<>>],
          [raises |-> FALSE, persons |-> <<PersonLeft>>,
           tracks |-> IF has_deepsort THEN <<TrackLeft>> ELSE <<>>],
          [raises |-> FALSE, persons |-> <<PersonLeftMoved>>,
           tracks |-> IF has_deepsort THEN <<TrackLeftMoved>> ELSE <<>>]}
    ELSE {NoDetection}

\* Face detection on the first frame of the preview and in runs over the
\* whole video or from its second frame on.
NextFaces ==
    \/ Authoring /\ open_video(TRUE, ".mp4", LongFrames)
    \/ Authoring /\ set_output_path
    \/ Authoring /\ toggle_face_detection(TRUE)
    \/ Authoring /\ toggle_frame_range(FALSE)
    \/ Authoring /\ type_process_range(1, LongFrames - 1)
    \/ Authoring /\ start_crop_drawing
    \/ Authoring /\ Len(shapes) < 1 /\ on_mouse_down(NearCorner[1], NearCorner[2])
    \/ Authoring /\ on_mouse_up(FarCorner[1], FarCorner[2])
    \/ process_video(Codecs)
    \/ \E det \in Sightings(Settings, frame_count, tracked_faces) : ExportFrame(FALSE, det)
    \/ ExportFinish(FALSE)

\* RTMPose is installed, with DeepSort or without.
InitFaces == (\E ds \in BOOLEAN : Constructed(TRUE, ds)) /\ NoCall

SpecFaces == InitFaces /\ [][NextFaces]_vars

\* ------------------------------------- the rasterizer and the effect, alone
\* The effect settings a shape tuple may carry: every mask type, the two
\* ends of the strengths whose kernel the model computes, two colours.
Strengths == {MinStrength, DefaultStrength}
Colors == {0, 200}

\* The shape tuples handed to the rasterizer: rectangles between any two
\* pixels, in either order, and triangles through them.
Pixels == Coords(FrameW, FrameH)
Outlines ==
    {[type |-> "rectangle", points |-> <<p0, p1>>] : p0 \in Pixels, p1 \in Pixels}
    \cup {[type |-> "polygon", points |-> <<p0, p1, <<0, FrameH - 1>> >>] :
             p0 \in Pixels, p1 \in Pixels}
DrawnShapes ==
    {[type |-> o.type, points |-> o.points, mask_type |-> m, strength |-> k,
      color |-> c, ranged |-> FALSE, start |-> 0, end |-> 0] :
        o \in Outlines, m \in MaskTypes, k \in Strengths, c \in Colors}

\* A frame of the video and a shape to mask on it.
InitMask ==
    /\ Constructed(FALSE, FALSE)
    /\ fx_index \in 0 .. TotalFrames - 1
    /\ fx_frame = RawFrame(fx_index)
    /\ fx_orig = fx_frame
    /\ fx_shape \in DrawnShapes
    /\ fx_mask = NoFrame /\ fx_result = NoFrame /\ fx_shapes = <<>>
    /\ fx_preview = <<>> /\ fx_export = <<>>
    /\ fx_det = <<>> /\ fx_faces = <<>>

appVars == <<videoVars, viewVars, shapeVars, maskVars, rangeVars, cropVars, rotVars,
             trimVars, envVars, faceVars, runVars, writerVars>>

\* "Create shape mask": the mask of fx_shape, of the size of the frame.
Rasterize ==
    /\ fx_shape # <<>> /\ fx_mask = NoFrame
    /\ fx_mask' = ShapeMask(fx_frame.w, fx_frame.h, fx_shape)
    /\ UNCHANGED <<appVars, fx_frame, fx_orig, fx_result, fx_shape, fx_shapes, fx_index,
                   fx_preview, fx_export,
                   fx_det, fx_faces>>

\* What a call of apply_mask_effect leaves: the frame returned in fx_result,
\* the caller's buffer in fx_frame.
Returned(r) ==
    /\ fx_result' = r.result
    /\ fx_frame' = r.frame

\* "Apply effect to this shape": apply_mask_effect on the frame, under the
\* mask and with the settings of the shape.
ApplyEffect ==
    /\ fx_mask # NoFrame /\ fx_result = NoFrame
    /\ Returned(apply_mask_effect(fx_frame, fx_mask, fx_shape.mask_type,
                                  fx_shape.strength, fx_shape.color))
    /\ UNCHANGED <<appVars, fx_orig, fx_mask, fx_shape, fx_shapes, fx_index, fx_preview,
                   fx_export,
                   fx_det, fx_faces>>

NextMask == Rasterize \/ ApplyEffect

SpecMask == InitMask /\ [][NextMask]_vars

\* The shape lists handed to the compositor: one to three rectangles, the
\* first solid, the others solid or blurred, each without a range (a tuple
\* of five elements) or with one.
ListedRanges ==
    {[ranged |-> FALSE, start |-> 0, end |-> 0],
     [ranged |-> TRUE, start |-> 0, end |-> TotalFrames - 2],
     [ranged |-> TRUE, start |-> TotalFrames - 2, end |-> TotalFrames - 1]}
ListedOutlines == { <<NearCorner, <<1, 0>> >>, << <<1, 0>>, FarCorner>> }
ListedShapes ==
    {[type |-> "rectangle", points |-> o, mask_type |-> m, strength |-> MinStrength,
      color |-> 200, ranged |-> r.ranged, start |-> r.start, end |-> r.end] :
        o \in ListedOutlines, m \in {"solid", "blur"}, r \in ListedRanges}
ShapeLists ==
    {q \in UNION {[1 .. n -> ListedShapes] : n \in 1 .. MaxShapes} :
        q[1].mask_type = "solid" /\ q[1].points[1] = NearCorner}

\* A frame of the video, its index and a shape list to compose it under.
InitList ==
    /\ Constructed(FALSE, FALSE)
    /\ fx_index \in 0 .. TotalFrames - 1
    /\ fx_frame = RawFrame(fx_index)
    /\ fx_orig = fx_frame
    /\ fx_shapes \in ShapeLists
    /\ fx_shape = <<>> /\ fx_mask = NoFrame /\ fx_result = NoFrame
    /\ fx_preview = <<>> /\ fx_export = <<>>
    /\ fx_det = <<>> /\ fx_faces = <<>>

\* process_frame(fx_frame) with self.frame_index = fx_index and self.shapes
\* = fx_shapes.
ComposePreview ==
    /\ fx_shapes # <<>> /\ fx_preview = <<>>
    /\ fx_preview' = process_frame(fx_frame, [Settings EXCEPT !.shapes = fx_shapes],
                                   fx_index, <<>>, NoDetection)
    /\ UNCHANGED <<appVars, fx_frame, fx_orig, fx_mask, fx_result, fx_shape, fx_shapes,
                   fx_index, fx_export,
                   fx_det, fx_faces>>

\* The body of the frame loop on fx_frame read at current_frame_idx =
\* fx_index, with self.shapes = fx_shapes.
ComposeExport ==
    /\ fx_shapes # <<>> /\ fx_export = <<>>
    /\ fx_export' = ExportCompose(fx_frame, [Settings EXCEPT !.shapes = fx_shapes],
                                  fx_index, 0, 0, <<>>, NoDetection, fx_frame.w, fx_frame.h)
    /\ UNCHANGED <<appVars, fx_frame, fx_orig, fx_mask, fx_result, fx_shape, fx_shapes,
                   fx_index, fx_preview,
                   fx_det, fx_faces>>

NextList == ComposePreview \/ ComposeExport

SpecList == InitList /\ [][NextList]_vars

\* A session on the shape list: rectangles drawn from one of two corners,
\* solid or blurred, a shape's range narrowed to the second frame, a shape
\* deleted, the list cleared, and the video exported.
NextShapes ==
    \/ Authoring /\ open_video(TRUE, ".mp4", TotalFrames)
    \/ Authoring /\ set_output_path
    \/ Authoring /\ select_mask_type("solid")
    \/ Authoring /\ on_mouse_down(NearCorner[1], NearCorner[2])
    \/ Authoring /\ on_mouse_down(1, 0)
    \/ Authoring /\ on_mouse_up(FarCorner[1], FarCorner[2])
    \/ Authoring /\ \E idx \in 1 .. MaxShapes : set_shape_frame_range(idx, 1, 1)
    \/ Authoring /\ \E idx \in 1 .. MaxShapes : delete_selected_shape(idx)
    \/ Authoring /\ clear_shapes
    \/ process_video(Codecs)
    \/ ExportFrame(FALSE, NoDetection)
    \/ ExportFinish(FALSE)

\* No face detector is installed.
InitShapes == Constructed(FALSE, FALSE) /\ NoCall

SpecShapes == InitShapes /\ [][NextShapes]_vars

\* ------------------------------------------------------------------- claims
\* C6: whatever the effect (blur, pixelate, solid, black), the mask and the
\* frame, every pixel of the frame apply_mask_effect returns whose mask
\* value is 0 equals the pixel of the frame it was given, and the frame it
\* was given is as it was before the call.
C6_UnmaskedPixelsKept ==
    fx_result # NoFrame =>
      /\ fx_frame = fx_orig
      /\ fx_result.w = fx_orig.w /\ fx_result.h = fx_orig.h
      /\ \A p \in Coords(fx_orig.w, fx_orig.h) :
           fx_mask.px[p] = 0 => fx_result.px[p] = fx_orig.px[p]

\* A call that pixelated some pixel under the mask beside a pixel outside it.
C6_Witness ==
    /\ fx_result # NoFrame
    /\ fx_shape.mask_type = "pixelate"
    /\ \E p \in Coords(fx_orig.w, fx_orig.h) : fx_mask.px[p] = 0
    /\ \E q \in Coords(fx_orig.w, fx_orig.h) :
         fx_mask.px[q] = White /\ fx_result.px[q] # fx_orig.px[q]

\* C7: the mask of a rectangle shape with corners p0 and p1, in whatever
\* order they are given, selects the pixels (x, y) with min(x0, x1) <= x <=
\* max(x0, x1) and min(y0, y1) <= y <= max(y0, y1), both ends included, and
\* no other pixel.
C7_RectangleMaskInclusive ==
    (fx_mask # NoFrame /\ fx_shape.type = "rectangle") =>
      LET x0 == fx_shape.points[1][1]
          y0 == fx_shape.points[1][2]
          x1 == fx_shape.points[2][1]
          y1 == fx_shape.points[2][2]
      IN \A x \in 0 .. fx_mask.w - 1, y \in 0 .. fx_mask.h - 1 :
           IF /\ (x0 <= x \/ x1 <= x) /\ (x <= x0 \/ x <= x1)
              /\ (y0 <= y \/ y1 <= y) /\ (y <= y0 \/ y <= y1)
           THEN fx_mask.px[<<x, y>>] = 255
           ELSE fx_mask.px[<<x, y>>] = 0

\* A rectangle rasterized whose second corner lies left of and above its
\* first, with pixels inside and outside it.
C7_Witness ==
    /\ fx_mask # NoFrame /\ fx_shape.type = "rectangle"
    /\ fx_shape.points[2][1] < fx_shape.points[1][1]
    /\ fx_shape.points[2][2] < fx_shape.points[1][2]
    /\ \E p \in Coords(fx_mask.w, fx_mask.h) : fx_mask.px[p] = 0
    /\ fx_mask.px[fx_shape.points[1]] = 255

\* The codecs tried for a .mp4 path whose preferred codec does not open, were
\* the preferred codec tried again in its place on the fallback list.
C10_ListWithRetry == <<"avc1", "mp4v", "XVID", "avc1", "H264">>

\* C10 as stated: for a .mp4 output whose preferred codec avc1 does not open,
\* the codecs attempted after it are mp4v, then XVID, then avc1, then H264,
\* up to the first that opens.
C10_RetriesPreferred ==
    (out.path = ".mp4" /\ "avc1" \notin codecs_ok) =>
      \E n \in 2 .. Len(C10_ListWithRetry) :
        /\ attempts = SubSeq(C10_ListWithRetry, 1, n)
        /\ \A i \in 1 .. n - 1 : C10_ListWithRetry[i] \notin codecs_ok
        /\ n < Len(C10_ListWithRetry) => C10_ListWithRetry[n] \in codecs_ok

\* The codecs tried for a .mp4 path whose preferred codec does not open.
C10_List == <<"avc1", "mp4v", "XVID", "H264">>

\* C10, amended: for a .mp4 output whose preferred codec avc1 does not open,
\* the codecs attempted after it are mp4v, then XVID, then H264, in that
\* order and up to the first that opens; avc1 is not attempted a second
\* time, and the writer returned is the one of the last attempt.
C10_FallbackOrder ==
    (out.path = ".mp4" /\ "avc1" \notin codecs_ok) =>
      \E n \in 2 .. Len(C10_List) :
        /\ attempts = SubSeq(C10_List, 1, n)
        /\ \A i \in 1 .. n - 1 : C10_List[i] \notin codecs_ok
        /\ n < Len(C10_List) => C10_List[n] \in codecs_ok
        /\ out.codec = C10_List[n]
        /\ out.opened = (C10_List[n] \in codecs_ok)

\* A writer for a .mp4 path that opened on the last fallback only.
C10_Witness ==
    /\ out.path = ".mp4" /\ out.opened /\ out.codec = "H264"
    /\ Len(attempts) = 4 /\ attempts[1] = "avc1"
    /\ pc = "running"

\* C3: the range a run of process_video works on is the trim range whenever
\* trimming is enabled, whatever blur_entire_video and the explicit start and
\* end hold; without trimming it is the explicit range when "Process specific
\* range" is selected; and [0, total_frames - 1] otherwise.
C3_RangePrecedence ==
    pc = "running" =>
      /\ trim_enabled =>
           (run_start = trim_start_frame /\ run_end = trim_end_frame)
      /\ (~trim_enabled /\ ~blur_entire_video) =>
           (run_start = start_frame /\ run_end = end_frame)
      /\ (~trim_enabled /\ blur_entire_video) =>
           (run_start = 0 /\ run_end = total_frames - 1)

\* A run under a trim range, with "Process specific range" selected and an
\* explicit range that differs from the trim range at both ends.
C3_Witness ==
    /\ pc = "running"
    /\ trim_enabled /\ ~blur_entire_video
    /\ start_frame # trim_start_frame /\ end_frame # trim_end_frame
    /\ run_start = trim_start_frame /\ run_end = trim_end_frame

\* The frame indices start .. end, in order.
C4_Indices(start, end) == [i \in 1 .. end - start + 1 |-> start + i - 1]

\* C4: in a run whose range [start, end] lies inside the video, the frames
\* read, composed and handed to the encoder so far are those of the indices
\* start, start + 1, ... in order, each once; and when the run ends without
\* a failed read they are exactly the end - start + 1 frames start .. end.
C4_EachFrameOnce ==
    (out.opened /\ 0 <= run_start /\ run_start <= run_end /\ run_end <= total_frames - 1) =>
      /\ Len(read_log) <= run_end - run_start + 1
      /\ read_log = SubSeq(C4_Indices(run_start, run_end), 1, Len(read_log))
      /\ [i \in 1 .. Len(written) |-> written[i].idx] = read_log
      /\ \A i \in 1 .. Len(written) : written[i].frame # NoFrame
      /\ (out.released /\ ~read_failed) => read_log = C4_Indices(run_start, run_end)

\* A run over a trim range of two frames that do not start the video, ended
\* with every read done.
C4_Witness ==
    /\ out.opened /\ out.released /\ ~read_failed
    /\ trim_enabled /\ run_start = 1 /\ run_end = 2
    /\ Len(written) = 2 /\ written[1].idx = 1 /\ written[2].idx = 2

\* C1, as stated: every frame the export loop has written equals the frame
\* process_frame produces from the same raw frame, at the same frame index,
\* under the same authoring state and the same tracks.
C1_PreviewEqualsExport ==
    \A k \in 1 .. Len(written) : written[k].frame = preview_ref[k].frame

\* The place of a stage in the fixed order.
StageRank(stage) ==
    CASE stage = "rotation" -> 1
      [] stage = "face" -> 2
      [] stage = "shape" -> 3
      [] stage = "crop" -> 4

\* A stage log in the fixed order: no stage after a later one, rotation, the
\* face effect and the crop at most once, the shapes by their place in the list.
InStageOrder(log) ==
    \A i, j \in 1 .. Len(log) :
      i < j =>
        /\ StageRank(log[i].stage) <= StageRank(log[j].stage)
        /\ StageRank(log[i].stage) = StageRank(log[j].stage) =>
             (log[i].stage = "shape" /\ log[i].arg < log[j].arg)

\* C2: the stages applied to the frame on display, and to every frame a run
\* has written, were applied in the order rotation, face effect, manual
\* shapes, crop: no stage was applied after a later one.
C2_StagesInOrder ==
    /\ InStageOrder(stage_log)
    /\ \A k \in 1 .. Len(written) : InStageOrder(written[k].log)

\* A frame on display and a frame written that each went through all four
\* stages.
C2_Witness ==
    /\ Len(stage_log) = 4
    /\ {stage_log[i].stage : i \in 1 .. 4} = {"rotation", "face", "shape", "crop"}
    /\ \E k \in 1 .. Len(written) :
         /\ Len(written[k].log) = 4
         /\ {written[k].log[i].stage : i \in 1 .. 4} = {"rotation", "face", "shape", "crop"}

\* The frame of the index of the last frame written.
C8_Frame == RawFrame(written[Len(written)].idx)

\* The pixelwise OR of the masks of the tracks held, each drawn alone.
C8_UnionMask ==
    [w |-> FrameW, h |-> FrameH,
     px |-> [p \in Coords(FrameW, FrameH) |->
               IF \E i \in 1 .. Len(tracked_faces) :
                    create_face_mask(C8_Frame, <<tracked_faces[i]>>, mask_shape).px[p] = White
               THEN White ELSE 0]]

\* The frame the face stage is handed: the raw frame, rotated when rotation
\* is on.
C8_Rotated ==
    IF rotation_enabled /\ rotation_angle # 0
    THEN rotate_frame(C8_Frame, rotation_angle)
    ELSE C8_Frame

\* That frame after one pass of the face effect under the OR of the masks.
C8_OnePass ==
    apply_mask_effect(C8_Rotated, C8_UnionMask, mask_type, blur_strength, mask_color).result

\* Whether the face effect was the last stage of a composition.
C8_FaceLast(log) == log # <<>> /\ log[Len(log)].stage = "face"

\* How often the face effect appears in a stage log.
C8_FacePasses(log) == Cardinality({i \in 1 .. Len(log) : log[i].stage = "face"})

\* C8: the face effect is applied at most once to a frame composed, in
\* preview and export; and the frame a run has just composed under the
\* tracks it holds, when the face effect was its last stage, is the frame
\* that stage was handed after one pass of the effect under the OR of the
\* masks of those tracks, in the export loop and in process_frame alike.
C8_OneEffectUnderUnion ==
    /\ C8_FacePasses(stage_log) <= 1
    /\ \A k \in 1 .. Len(written) :
         C8_FacePasses(written[k].log) <= 1 /\ C8_FacePasses(preview_ref[k].log) <= 1
    /\ (pc = "running" /\ written # <<>>) =>
         /\ C8_FaceLast(written[Len(written)].log) =>
              (tracked_faces # <<>> /\ written[Len(written)].frame = C8_OnePass)
         /\ C8_FaceLast(preview_ref[Len(written)].log) =>
              (tracked_faces # <<>> /\ preview_ref[Len(written)].frame = C8_OnePass)

\* A frame just composed under two tracks whose masks share a pixel that the
\* face effect, the last stage in preview and export, changed.
C8_Witness ==
    /\ pc = "running" /\ written # <<>>
    /\ C8_FaceLast(written[Len(written)].log)
    /\ C8_FaceLast(preview_ref[Len(written)].log)
    /\ Len(tracked_faces) >= 2
    /\ \E p \in Coords(FrameW, FrameH) :
         /\ create_face_mask(C8_Frame, <<tracked_faces[1]>>, mask_shape).px[p] = White
         /\ create_face_mask(C8_Frame, <<tracked_faces[2]>>, mask_shape).px[p] = White
         /\ written[Len(written)].frame.px[p] # C8_Rotated.px[p]

\* Whether the range of a shape, if it carries one, holds the frame index.
C5_InRange(shape) ==
    shape.ranged => (shape.start <= fx_index /\ fx_index <= shape.end)

\* The stages of a composition that applied the shape at place k of the list.
C5_Passes(r, k) ==
    {i \in 1 .. Len(r.log) : r.log[i] = [stage |-> "shape", arg |-> k]}

\* The same composition under the list without the shapes whose range
\* leaves the frame index out.
C5_WithoutInactive(r) ==
    IF r = fx_preview
    THEN process_frame(fx_frame, [Settings EXCEPT !.shapes = SelectSeq(fx_shapes, C5_InRange)],
                       fx_index, <<>>, NoDetection)
    ELSE ExportCompose(fx_frame, [Settings EXCEPT !.shapes = SelectSeq(fx_shapes, C5_InRange)],
                       fx_index, 0, 0, <<>>, NoDetection, fx_frame.w, fx_frame.h)

\* Whether the shape at place k is solid and no shape after it is in range.
C5_LastSolid(k) ==
    /\ C5_InRange(fx_shapes[k]) /\ fx_shapes[k].mask_type = "solid"
    /\ \A j \in k + 1 .. Len(fx_shapes) : ~C5_InRange(fx_shapes[j])

\* C5: in preview and in export, the shape at each place of the list is
\* applied to the frame of index i, once, if and only if it carries no range
\* or its range [s, e] has s <= i <= e (a solid shape applied last leaves its
\* colour on every pixel of its rectangle), and the frame composed is the
\* frame composed under the list without the shapes whose range leaves i out.
C5_ActiveInsideRange ==
    \A r \in {fx_preview, fx_export} \ {<<>>} :
      /\ \A k \in 1 .. Len(fx_shapes) :
           /\ Cardinality(C5_Passes(r, k)) = (IF C5_InRange(fx_shapes[k]) THEN 1 ELSE 0)
           /\ C5_LastSolid(k) =>
                \A p \in Coords(FrameW, FrameH) :
                  ShapeMask(FrameW, FrameH, fx_shapes[k]).px[p] = White =>
                    r.result.px[p] = fx_shapes[k].color
      /\ r.result = C5_WithoutInactive(r).result

\* Both compositions done of the last frame of a range, under a list of a
\* shape whose range leaves that frame out, a shape without a range and a
\* solid shape of that range, which changed a pixel.
C5_Witness ==
    /\ fx_preview # <<>> /\ fx_export # <<>>
    /\ Len(fx_shapes) = 3
    /\ fx_shapes[1].ranged /\ fx_shapes[1].end < fx_index
    /\ ~fx_shapes[2].ranged
    /\ fx_shapes[3].ranged /\ fx_shapes[3].end = fx_index /\ fx_shapes[3].start < fx_index
    /\ fx_shapes[3].mask_type = "solid"
    /\ Len(fx_export.log) = 2 /\ Len(fx_preview.log) = 2
    /\ \E p \in Coords(FrameW, FrameH) :
         fx_export.result.px[p] = fx_shapes[3].color /\ fx_frame.px[p] # fx_shapes[3].color

\* Whether the shape at place k of the list is in range at frame index fi.
C9_Active(k, fi) ==
    ~shapes[k].ranged \/ (shapes[k].start <= fi /\ fi <= shapes[k].end)

\* The frame after the first k shapes of the list, each in range applied to
\* the result of the shapes before it.
RECURSIVE C9_After(_, _, _)
C9_After(frame, k, fi) ==
    IF k = 0 THEN frame
    ELSE IF C9_Active(k, fi)
    THEN apply_mask_effect(C9_After(frame, k - 1, fi),
                           ShapeMask(FrameW, FrameH, shapes[k]), shapes[k].mask_type,
                           shapes[k].strength, shapes[k].color).result
    ELSE C9_After(frame, k - 1, fi)

\* The frames on display and written are the frames after all the shapes in
\* list order.
C9_InListOrder ==
    /\ (pc = "idle" /\ current_frame # NoFrame) =>
         preview = C9_After(current_frame, Len(shapes), frame_index)
    /\ \A k \in 1 .. Len(written) :
         written[k].frame = C9_After(RawFrame(written[k].idx), Len(shapes), written[k].idx)

\* The list q without its element at place idx.
C9_Others(q, idx) == [i \in 1 .. Len(q) - 1 |-> IF i < idx THEN q[i] ELSE q[i + 1]]

\* A step changes the shape list only by a shape added at its end, by one
\* shape taken out with the others left in their order, by the range of one
\* shape set with every shape left in its place, or by emptying it.
C9_OrderKept ==
    \/ shapes' = shapes
    \/ shapes' = <<>>
    \/ Len(shapes') = Len(shapes) + 1 /\ SubSeq(shapes', 1, Len(shapes)) = shapes
    \/ \E idx \in 1 .. Len(shapes) : shapes' = C9_Others(shapes, idx)
    \/ \E idx \in 1 .. Len(shapes) :
         /\ Len(shapes') = Len(shapes)
         /\ \A i \in 1 .. Len(shapes) :
              /\ i # idx => shapes'[i] = shapes[i]
              /\ [shapes'[i] EXCEPT !.start = 0, !.end = 0, !.ranged = TRUE]
                   = [shapes[i] EXCEPT !.start = 0, !.end = 0, !.ranged = TRUE]

\* C9: the shapes in range are applied in the order of the list, each to the
\* result of the one before, in preview and in export; and a step that
\* deletes a shape or sets its range leaves the other shapes in their order.
C9_SequentialInOrder == []C9_InListOrder /\ [][C9_OrderKept]_vars

\* On display, a frame under a list of three shapes whose middle one had its
\* range set and is out of range: the first blurred, the last solid, both
\* over a pixel that holds the colour of the last, beside a pixel that only
\* the first changed.
C9_Witness ==
    /\ pc = "idle" /\ current_frame # NoFrame
    /\ Len(shapes) = 3
    /\ ~C9_Active(2, frame_index) /\ C9_Active(1, frame_index) /\ C9_Active(3, frame_index)
    /\ shapes[1].mask_type = "blur" /\ shapes[3].mask_type = "solid"
    /\ \E p, q \in Coords(FrameW, FrameH) :
         /\ ShapeMask(FrameW, FrameH, shapes[1]).px[p] = White
         /\ ShapeMask(FrameW, FrameH, shapes[3]).px[p] = White
         /\ preview.px[p] = shapes[3].color
         /\ preview.px[p] # current_frame.px[p]
         /\ ShapeMask(FrameW, FrameH, shapes[1]).px[q] = White
         /\ ShapeMask(FrameW, FrameH, shapes[3]).px[q] = 0
         /\ preview.px[q] # current_frame.px[q]

\* The codecs get_video_writer can attempt for the extension e.
C11_Candidates(e) == {codec_map(e)} \cup {Fallbacks[k] : k \in 1 .. Len(Fallbacks)}

\* A call of process_video with both paths set, on a machine where neither
\* the preferred codec nor any fallback opens.
C11_CallWithoutEncoder ==
    /\ Idle /\ input_video # "none" /\ output_path # "none"
    /\ C11_Candidates(ext) \cap codecs_ok' = {}
    /\ reports' # reports \/ out' # out \/ codecs_ok' # codecs_ok \/ pc' # pc

\* What such a call leaves: the preferred codec and every fallback
\* attempted, no writer open, the failure status, and nothing of a run: no
\* frame read or written, no tracker reset, no telemetry, no release.
C11_EndsBeforeAnyFrame ==
    /\ {attempts'[k] : k \in 1 .. Len(attempts')} = C11_Candidates(ext)
    /\ ~out'.opened
    /\ pc' = "idle"
    /\ status_text' = "Failed to create output video"
    /\ reports' = <<"Failed to create output video">>
    /\ read_log' = read_log /\ written' = written /\ preview_ref' = preview_ref
    /\ face_log' = face_log /\ telemetry' = telemetry
    /\ tracked_faces' = tracked_faces
    /\ releases' = releases /\ errors' = errors
    /\ frame_index' = frame_index /\ preview' = preview

\* C11: when the preferred codec and every fallback codec fail to open, the
\* call ends with the "Failed to create output video" status before any
\* frame is read, composed or written and before the trackers are reset; a
\* run is only ever in its frame loop with an opened writer.
C11_NoEncoderNoRun ==
    /\ [](pc = "running" => out.opened)
    /\ [][C11_CallWithoutEncoder => C11_EndsBeforeAnyFrame]_vars

\* A .wmv export refused after its five codecs, on a machine with both
\* trackers, after an earlier run wrote its frames.
C11_Witness ==
    /\ reports = <<"Failed to create output video">>
    /\ ext = ".wmv" /\ Len(attempts) = 5 /\ ~out.opened
    /\ rtmpose_initialized /\ has_deepsort
    /\ Len(written) = TotalFrames /\ Len(face_log) = TotalFrames + 2

\* Whether the activation range of the crop covers the whole range of the
\* run.
C12_CropCoversRun ==
    crop_all_frames \/ (crop_start_frame <= run_start /\ run_end <= crop_end_frame)

\* C12: the encoder of a run is opened at the crop's width and height only
\* when a traditional crop is enabled with a positive region and its
\* activation range covers the whole export range; otherwise it is opened
\* at the source's width and height.
C12_EncoderSize ==
    pc = "running" =>
      <<out.w, out.h>> =
        IF /\ crop_enabled /\ crop_type = "traditional"
           /\ crop_width > 0 /\ crop_height > 0
           /\ C12_CropCoversRun
        THEN <<crop_width, crop_height>>
        ELSE <<FrameW, FrameH>>

\* The statuses that report a run as completed.
C13_CompletedStatuses ==
    {"Video processing completed", "Video processing completed with errors"}

\* C13: a run whose read fails before the end of the range is not reported
\* as completed.
C13_ReadFailureNotCompleted ==
    (pc = "idle" /\ read_failed) =>
      \A k \in 1 .. Len(reports) : reports[k] \notin C13_CompletedStatuses

\* The frames handed to out.write whose write raised.
C14_FailedWrites == {k \in 1 .. Len(written) : written[k].raised}

\* A step of the frame loop in which out.write raises.
C14_WriteFails ==
    /\ pc = "running"
    /\ Len(written') = Len(written) + 1
    /\ written'[Len(written')].raised

\* What that step leaves: one error more, and the loop at the next frame.
C14_CountedAndContinued ==
    /\ errors' = errors + 1
    /\ pc' = "running"
    /\ current_frame_idx' = current_frame_idx + 1
    /\ cap_pos' = cap_pos + 1
    /\ frame_count' = frame_count + 1
    /\ reports' = reports /\ releases' = releases

\* C14: a write that fails adds exactly one to the error counter and the
\* run goes on with the next frame; at every point of a run, and when it
\* has ended, the error count is the number of frames whose write failed,
\* and the "completed with errors" status is the one set exactly when that
\* number is not zero.
C14_ErrorsCountFailedWrites ==
    /\ [](errors = Cardinality(C14_FailedWrites))
    /\ []((pc = "idle" /\ releases = 1 /\ reports # <<>>) =>
            (C14_FailedWrites # {}
               <=> \E k \in 1 .. Len(reports) :
                     reports[k] = "Video processing completed with errors"))
    /\ [][C14_WriteFails => C14_CountedAndContinued]_vars

\* A run over three frames whose first and last writes failed and whose
\* second went through.
C14_Witness ==
    /\ pc = "idle" /\ releases = 1 /\ out.released
    /\ Len(written) = 3 /\ errors = 2
    /\ written[1].raised /\ ~written[2].raised /\ written[3].raised
    /\ written[3].idx = written[1].idx + 2

\* The ids of the tracks in a list.
TrackIds(faces) == {faces[i].id : i \in 1 .. Len(faces)}

\* The trackers installed, which a run resets before its first frame.
RunResets == (IF rtmpose_initialized THEN 1 ELSE 0) + (IF has_deepsort THEN 1 ELSE 0)

\* The entry of face_log for the k-th frame of the run.
RunEntry(k) == face_log[RunResets + k]

\* A step of the frame loop in which detect_faces is called and the
\* detector or the tracker raises inside it.
C15_DetectorFails ==
    /\ pc = "running"
    /\ Len(face_log') = Len(face_log) + 1
    /\ face_log'[Len(face_log')].raised

\* What that step leaves: no track, no status, no error, a frame written
\* that is the frame read put through rotation, the shapes and the crop,
\* and the loop at the next frame.
C15_FrameStillComposed ==
    /\ tracked_faces' = <<>>
    /\ face_log'[Len(face_log')].after = <<>>
    /\ telemetry' = telemetry
    /\ Len(written') = Len(written) + 1
    /\ written'[Len(written')].idx = current_frame_idx
    /\ written'[Len(written')].frame =
         ExportWith(RawFrame(cap_pos), Settings, current_frame_idx, <<>>,
                    CapWidth, CapHeight).result
    /\ \A k \in 1 .. Len(shapes) :
         ~ShapeSkipped(shapes[k], current_frame_idx) =>
           \E j \in 1 .. Len(written'[Len(written')].log) :
             written'[Len(written')].log[j] = [stage |-> "shape", arg |-> k]
    /\ pc' = "running"
    /\ current_frame_idx' = current_frame_idx + 1
    /\ errors' = errors /\ reports' = reports /\ status_text' = status_text

\* C15: when the detector or the tracker fails on a frame, the track list
\* for that frame is empty and nothing propagates: the frame is still
\* composed with the shapes and the crop and written, and the run goes on
\* with the next frame.
C15_DetectorFailureContained == [][C15_DetectorFails => C15_FrameStillComposed]_vars

\* A finished run with a shape and a crop whose detector failed on the
\* second frame, after tracks on the first, and which wrote every frame.
C15_Witness ==
    /\ pc = "idle" /\ releases = 1 /\ Len(written) = LongFrames
    /\ Len(shapes) = 1 /\ crop_enabled
    /\ Len(face_log) = RunResets + LongFrames
    /\ ~RunEntry(1).raised
    /\ RunEntry(LongFrames).raised
    /\ RunEntry(LongFrames).before # <<>>
    /\ \E j \in 1 .. Len(written[LongFrames].log) :
         written[LongFrames].log[j].stage = "shape"
    /\ \E j \in 1 .. Len(written[LongFrames].log) :
         written[LongFrames].log[j].stage = "crop"

\* The entries of face_log that stand for a frame of the run.
C16_FrameEntries == {k \in 1 .. Len(face_log) : face_log[k].op = "frame"}

\* C16: with automatic detection on, detect_faces is called for a frame of
\* a run exactly when the frame's index in the video is a multiple of
\* detection_frequency or no track is held, and the tracks are reused
\* unchanged otherwise, also in a run that starts at a frame whose index is
\* not a multiple of detection_frequency.
C16_CadenceOnFrameIndex ==
    Detecting(Settings) =>
      \A k \in C16_FrameEntries :
        /\ face_log[k].invoked
             <=> (face_log[k].idx % detection_frequency = 0 \/ face_log[k].before = <<>>)
        /\ ~face_log[k].invoked => face_log[k].after = face_log[k].before

\* C17: in a run with automatic detection on, the detector and the tracker
\* are reset before the first frame, detect_faces is called for the first
\* frame processed, and the tracks held for any frame come from a call
\* made in the run: the tracks the preview left are used neither for the
\* face effect of a frame written nor for the telemetry.
C17_RunStartsFromFreshTracks ==
    (Detecting(Settings) /\ (pc = "running" \/ releases = 1)) =>
      /\ Len(face_log) = RunResets + Len(written)
      /\ face_log[1] = [op |-> "pose_tracker.reset"]
      /\ has_deepsort => face_log[2] = [op |-> "delete_all_tracks"]
      /\ \A k \in 1 .. Len(written) :
           /\ RunEntry(k).op = "frame"
           /\ k = 1 => (RunEntry(k).invoked /\ RunEntry(k).count = 0)
           /\ RunEntry(k).invoked \/ (k > 1 /\ RunEntry(k).after = RunEntry(k - 1).after)
           /\ written[k].frame =
                ExportWith(RawFrame(written[k].idx), Settings, written[k].idx,
                           RunEntry(k).after, CapWidth, CapHeight).result
      /\ \A id \in DOMAIN telemetry.faces :
           \E k \in 1 .. Len(written) : id \in TrackIds(RunEntry(k).after)

\* A finished run with DeepSort that started from the second frame with
\* the two tracks of the preview held, and whose first call of detect_faces
\* left the one moved track instead.
C17_Witness ==
    /\ pc = "idle" /\ releases = 1 /\ has_deepsort /\ Detecting(Settings)
    /\ run_start = 1 /\ Len(written) = LongFrames - 1
    /\ Len(RunEntry(1).before) = 2
    /\ RunEntry(1).after = ConfirmedTracks(<<TrackLeftMoved>>, 0)
    /\ DOMAIN telemetry.faces = {TrackLeftMoved.track_id}

\* The frames of the run, by their place in it, for which the face id was
\* held.
C18_HeldIn(id) == {k \in 1 .. Len(written) : id \in TrackIds(RunEntry(k).after)}

\* The track of the face id as held for the k-th frame of the run.
C18_Held(id, k) ==
    RunEntry(k).after[CHOOSE i \in 1 .. Len(RunEntry(k).after) :
                          RunEntry(k).after[i].id = id]

\* The last of a non-empty set of numbers.
C18_Last(ks) == CHOOSE k \in ks : \A j \in ks : j <= k

\* C18: the cumulative entry of face_tracking_data for a face id lists the
\* indices of all the frames for which the id was held so far, and its
\* bounding box and confidence are those of the most recent of them.
C18_CumulativeEntryCurrent ==
    (Detecting(Settings) /\ (pc = "running" \/ releases = 1)) =>
      \A id \in DOMAIN telemetry.faces :
        /\ C18_HeldIn(id) # {}
        /\ Len(telemetry.faces[id].frames) = Cardinality(C18_HeldIn(id))
        /\ {telemetry.faces[id].frames[i] : i \in 1 .. Len(telemetry.faces[id].frames)}
             = {written[k].idx : k \in C18_HeldIn(id)}
        /\ telemetry.faces[id].bbox = C18_Held(id, C18_Last(C18_HeldIn(id))).bbox
        /\ telemetry.faces[id].confidence
             = C18_Held(id, C18_Last(C18_HeldIn(id))).confidence

\* A step that ends a run.
C19_LeavesRunning == pc = "running" /\ pc' = "idle"

\* What the end of a run leaves: the writer released, once; self.frame_index
\* at 0 and the first frame of the video on display.
C19_ReleasedAndReset ==
    /\ releases = 0 /\ releases' = 1
    /\ ~out.released /\ out'.released
    /\ frame_index' = 0
    /\ current_frame' = RawFrame(0)
    /\ cap_pos' = 1
    /\ \E det \in Answers(cap, Settings, 0, tracked_faces) :
         preview' = process_frame(RawFrame(0), Settings, 0, tracked_faces, det).result

\* C19: every run that has entered its frame loop leaves it; for a range
\* with start <= end the loop makes at most end - start + 1 iterations; the
\* writer is released exactly once however the loop ends (range exhausted,
\* failed read, exception while a frame is composed or while the face
\* tracking data is dumped); the window is back to idle with frame 0 shown.
C19_RunsEndAndRelease ==
    /\ (pc = "running") ~> (pc = "idle")
    /\ [](run_start <= run_end => Len(read_log) <= run_end - run_start + 1)
    /\ [](pc = "running" => (out.opened /\ ~out.released /\ releases = 0))
    /\ []((pc = "idle" /\ out.opened) => (out.released /\ releases = 1))
    /\ [][C19_LeavesRunning => C19_ReleasedAndReset]_vars

\* A run ended by an exception while its third frame was composed, after
\* two frames written, the preview having stood on another frame before.
C19_Witness ==
    /\ pc = "idle" /\ out.released /\ releases = 1
    /\ reports # <<>> /\ reports[1] = "Error during processing"
    /\ Len(written) = 2 /\ Len(read_log) = 3
    /\ frame_index = 0 /\ current_frame = RawFrame(0)
    /\ RunEntry(1).after # <<>> /\ RunEntry(1).after[1].frame_index = 1

\* C20: after an exception raised while frames are processed, the status
\* the user is left with tells the triggering condition, the elapsed time
\* and the number of frames written, and no "completed" status has
\* replaced the error report.
C20_ErrorReportKept ==
    (pc = "idle" /\ reports # <<>> /\ reports[1] = "Error during processing") =>
      /\ {"condition", "elapsed", "frames written"} \subseteq Carries(status_text)
      /\ \A k \in 1 .. Len(reports) :
           reports[k] \notin {"Video processing completed",
                              "Video processing completed with errors"}


\* ------------------------------------------------------------ rotation panel
\* What is typed into the rotation entry.
TypedAngles == {0, 90, -90, 180}

\* The rotation panel over an open video: the entry, "Apply", "Rotate Left",
\* "Rotate Right", "Reset" and the checkbutton.
NextRotate ==
    \/ Authoring /\ open_video(TRUE, ".mp4", TotalFrames)
    \/ Authoring /\ next_frame
    \/ Authoring /\ \E a \in TypedAngles : type_rotation_angle(a)
    \/ Authoring /\ set_rotation(rotation_angle)
    \/ Authoring /\ set_rotation(-90)
    \/ Authoring /\ set_rotation(90)
    \/ Authoring /\ set_rotation(0)
    \/ Authoring /\ \E v \in BOOLEAN : toggle_rotation(v)

SpecRotate == Init /\ [][NextRotate]_vars

\* C30: "Apply" with the angle a in the entry leaves rotation_angle at exactly
\* a, for every a, 90 and -90 included; "Rotate Left" and "Rotate Right" add
\* -90 and +90 modulo 360; after any of them rotation_enabled holds exactly
\* when the resulting angle is not 0.
C30_ApplySetsEnteredAngle ==
    [][/\ set_rotation(rotation_angle) => rotation_angle' = rotation_angle
       /\ set_rotation(-90) => rotation_angle' = (rotation_angle - 90) % 360
       /\ set_rotation(90) => rotation_angle' = (rotation_angle + 90) % 360
       /\ (set_rotation(rotation_angle) \/ set_rotation(-90) \/ set_rotation(90))
             => rotation_enabled' = (rotation_angle' # 0)]_vars


\* ------------------------------------------------------------ trim timeline
\* The lengths of the videos opened on the trim timeline: one frame, and
\* several.
TrimLengths == {1, TotalFrames}

\* The trim panel over an open video.
NextTrim ==
    \/ Authoring /\ \E n \in TrimLengths : open_video(TRUE, ".mp4", n)
    \/ Authoring /\ next_frame
    \/ Authoring /\ \E v \in BOOLEAN : toggle_trim(v)
    \/ Authoring /\ \E x \in TrimXs : on_trim_click(x, TrimCanvasWidth)
    \/ Authoring /\ \E x \in TrimXs : on_trim_drag(x, TrimCanvasWidth)
    \/ Authoring /\ on_trim_release

SpecTrim == InitRun /\ [][NextTrim]_vars

\* C28: on an open video of at least one frame, whatever toggle_trim,
\* on_trim_click, on_trim_drag and on_trim_release have done,
\* 0 <= trim_start <= trim_end <= total_frames - 1.
C28_TrimInsideVideo ==
    (cap = "opened" /\ total_frames >= 1)
        => /\ 0 <= trim_start_frame
           /\ trim_start_frame <= trim_end_frame
           /\ trim_end_frame <= total_frames - 1


\* ------------------------------------------------------------ opening again
\* A session in which the file dialog is used again and again, the file
\* chosen opening or not, between moves of the settings open_video resets
\* (the mouse is used on the crop rectangle only).
NextReopen ==
    \/ Authoring /\ \E ok \in BOOLEAN : open_video(ok, ".mp4", TotalFrames)
    \/ Authoring /\ next_frame
    \/ Authoring /\ set_rotation(90)
    \/ Authoring /\ \E v \in BOOLEAN : toggle_trim(v)
    \/ Authoring /\ start_crop_drawing
    \/ Authoring /\ drawing_crop /\ on_mouse_down(NearCorner[1], NearCorner[2])
    \/ Authoring /\ drawing_crop /\ on_mouse_up(FarCorner[1], FarCorner[2])

SpecReopen == InitRun /\ [][NextReopen]_vars

\* C29: open_video with a file that fails to open, while another video is
\* open, leaves the session as it was (capture handle, input_video,
\* total_frames, shapes, crop, trim, rotation); hence, whenever input_video
\* is set, the capture held is an opened capture of that file.
C29_FailedOpenKeepsSession ==
    [][/\ (cap = "opened" /\ status_text' = "Failed to open video file")
            => UNCHANGED <<cap, input_video, total_frames, shapes, cropVars, trimVars,
                           rotVars>>
       /\ input_video' # "none" => cap' = "opened"]_vars


\* --------------------------------------------------------------- crop panel
\* Where the mouse goes down and up while the crop rectangle is drawn: the
\* two corners of the image and a point between them, so that a release may be
\* a click without a drag.
CropPoints == {NearCorner, <<1, 1>>, FarCorner}

\* The crop panel: the checkbutton, "Draw Crop Region", the mouse on the
\* image while the crop rectangle is drawn, "Reset", and the file dialog.
NextCropEdit ==
    \/ Authoring /\ open_video(TRUE, ".mp4", TotalFrames)
    \/ Authoring /\ next_frame
    \/ Authoring /\ \E v \in BOOLEAN : toggle_crop(v)
    \/ Authoring /\ start_crop_drawing
    \/ Authoring /\ drawing_crop /\ \E p \in CropPoints : on_mouse_down(p[1], p[2])
    \/ Authoring /\ drawing_crop /\ \E p \in CropPoints : on_mouse_up(p[1], p[2])
    \/ Authoring /\ reset_crop

SpecCropEdit == Init /\ [][NextCropEdit]_vars

\* C24: whatever toggle_crop, start_crop_drawing, the mouse on the crop
\* rectangle (a click without a drag included), reset_crop and open_video
\* have done, crop_enabled is true only if crop_width > 0 and
\* crop_height > 0.
C24_EnabledCropHasArea ==
    crop_enabled => (crop_width > 0 /\ crop_height > 0)


\* C26: every frame submitted to the encoder has exactly the width and the
\* height the encoder was opened with, whatever the crop mode, the crop's
\* activation range (all frames or a sub-range) and the rotation.
C26_FramesFitEncoder ==
    \A k \in 1 .. Len(written) :
        /\ written[k].frame.w = out.w
        /\ written[k].frame.h = out.h


\* C25: every track detect_faces returns carries, as frame_index, the index
\* in the video of the frame the detection ran on: the frame shown when the
\* call comes from the preview, frame i when it comes from the export of
\* frame i.
C25_StampIsFrameDetected ==
    \A k \in 1 .. Len(face_log) :
        (face_log[k].op = "frame" /\ face_log[k].invoked /\ ~face_log[k].raised)
            => \A t \in 1 .. Len(face_log[k].after) :
                   face_log[k].after[t].frame_index = face_log[k].idx


\* The frames the cumulative entry of the face id lists.
C27_ListedFor(id) ==
    {telemetry.faces[id].frames[i] : i \in 1 .. Len(telemetry.faces[id].frames)}

\* The face ids the per-frame record of the frame i lists.
C27_ListedIn(i) ==
    {telemetry.frames[i].faces[t].face_id : t \in 1 .. Len(telemetry.frames[i].faces)}

\* C27: at every point of a run the two indexes of face_tracking_data agree:
\* the frame i is in the frames list of the face f exactly when the
\* per-frame record of i lists the face id f; the frames list of each face
\* is strictly increasing and lies within the export range.
C27_TelemetryIndexesAgree ==
    /\ \A i \in DOMAIN telemetry.frames : C27_ListedIn(i) \subseteq DOMAIN telemetry.faces
    /\ \A id \in DOMAIN telemetry.faces :
         /\ C27_ListedFor(id) = {i \in DOMAIN telemetry.frames : id \in C27_ListedIn(i)}
         /\ \A i \in 1 .. Len(telemetry.faces[id].frames) - 1 :
               telemetry.faces[id].frames[i] < telemetry.faces[id].frames[i + 1]
         /\ C27_ListedFor(id) \subseteq run_start .. run_end

\* In a run under way a face is listed for two frames at least, and a frame
\* of the run has no record.
C27_Witness ==
    /\ pc = "running"
    /\ \E id \in DOMAIN telemetry.faces : Len(telemetry.faces[id].frames) >= 2
    /\ \E k \in 1 .. Len(written) : written[k].idx \notin DOMAIN telemetry.frames


\* ------------------------------------------------------------ drawing tools
\* Where the mouse goes down: a point of the image and one off it.
PressPoints == {NearCorner, <<-1, 0>>}

\* What the collaborators answer to "Detect Faces": nobody, or one person.
FacesSeen ==
    {NoDetection, [raises |-> FALSE, persons |-> <<PersonLeft>>, tracks |-> <<TrackLeft>>]}

\* The frame numbers typed into the dialog of set_shape_frame_range, some of
\* them outside the video.
AskedFrames == {-1, TotalFrames + 1}

\* The drawing tools over an open video: the three modes, the mouse, the
\* range dialog, "Delete", "Clear" and "Detect Faces". A shape is begun
\* while no shape is in the list and is given three points at most; faces
\* are detected while no shape is in progress and the list has one at most.
NextDraw ==
    \/ Authoring /\ open_video(TRUE, ".mp4", TotalFrames)
    \/ Authoring /\ next_frame
    \/ Authoring /\ \E m \in {"rectangle", "polygon", "freehand"} : set_drawing_mode(m)
    \/ Authoring /\ Len(shapes) < 1 /\ Len(current_shape) < 3
          /\ \E p \in PressPoints : on_mouse_down(p[1], p[2])
    \/ Authoring /\ Len(current_shape) < 3 /\ on_mouse_move(1, 0)
    \/ Authoring /\ on_mouse_up(FarCorner[1], FarCorner[2])
    \/ Authoring /\ on_double_click
    \/ Authoring /\ \E idx \in 1 .. MaxShapes, start \in AskedFrames, end \in AskedFrames :
                       set_shape_frame_range(idx, start, end)
    \/ Authoring /\ \E idx \in 1 .. MaxShapes : delete_selected_shape(idx)
    \/ Authoring /\ clear_shapes
    \/ Authoring /\ Len(shapes) < 2 /\ ~drawing
          /\ \E det \in FacesSeen : detect_faces_current_frame(det)

SpecDraw == InitRun /\ [][NextDraw]_vars

\* C22: whatever the mouse (down, move, up, double click; presses off the
\* image included) and the switches of the drawing mode (one while a
\* polygon is in progress included) have done, every rectangle has exactly 2
\* points and every polygon and freehand shape at least 3.
C22_ShapesWellFormed ==
    \A k \in 1 .. Len(shapes) :
        IF shapes[k].type = "rectangle"
        THEN Len(shapes[k].points) = 2
        ELSE Len(shapes[k].points) >= 3


\* C21: on an open video, whatever the drawing of rectangles, polygons and
\* freehand shapes, the conversion of faces to shapes, set_shape_frame_range
\* with any integers, "Delete" and "Clear" have done, every shape with a
\* range has 0 <= start <= end <= total_frames - 1.
C21_ShapeRangesInsideVideo ==
    cap = "opened" =>
      \A k \in 1 .. Len(shapes) :
        shapes[k].ranged =>
          /\ 0 <= shapes[k].start
          /\ shapes[k].start <= shapes[k].end
          /\ shapes[k].end <= total_frames - 1

\* A face converted on a later frame is in the list next to a shape whose
\* range the dialog has just set from numbers outside the video.
C21_Witness ==
    /\ cap = "opened"
    /\ status_text = "Shape set to appear in frames"
    /\ \E k \in 1 .. Len(shapes) : Len(shapes[k].points) = 36 /\ shapes[k].start > 0
    /\ \E k \in 1 .. Len(shapes) : shapes[k].start = 0 /\ shapes[k].end = 0


\* ------------------------------------------------------ detect_faces alone
\* What the pose tracker and DeepSort may answer for a frame: one person
\* whose face keypoints lie on the frame or past its right edge, and one
\* confirmed track whose box lies on the frame or over one of its edges.
DetectorInputs ==
    {[raises |-> FALSE,
      persons |-> << <<[x |-> a, y |-> b, s |-> 900], [x |-> a, y |-> b, s |-> 700]>> >>,
      tracks |-> <<[confirmed |-> TRUE, track_id |-> 7, tlwh |-> <<c, 0, 2, 2>>,
                    det_conf |-> 800]>>] :
        a \in {0, FrameW - 1, FrameW + 2}, b \in {0, FrameH - 1},
        c \in {-1, 0, FrameW - 1}}

\* A frame of the video and the collaborators' answer for it, with RTMPose
\* installed and DeepSort installed or not.
InitDetect ==
    /\ \E ds \in BOOLEAN : Constructed(TRUE, ds)
    /\ fx_index \in 0 .. TotalFrames - 1
    /\ fx_frame = RawFrame(fx_index)
    /\ fx_det \in DetectorInputs
    /\ fx_faces = <<>>
    /\ fx_orig = NoFrame /\ fx_mask = NoFrame /\ fx_result = NoFrame
    /\ fx_shape = <<>> /\ fx_shapes = <<>>
    /\ fx_preview = <<>> /\ fx_export = <<>>

\* detect_faces(fx_frame) with self.frame_index = fx_index.
CallDetectFaces ==
    /\ fx_faces = <<>>
    /\ fx_faces' = [returned |-> detect_faces(fx_frame, Settings, fx_index, fx_det)]
    /\ UNCHANGED <<appVars, fx_frame, fx_orig, fx_mask, fx_result, fx_shape, fx_shapes,
                   fx_index, fx_preview, fx_export, fx_det>>

NextDetect == CallDetectFaces

SpecDetect == InitDetect /\ [][NextDetect]_vars

\* C23: every track detect_faces returns, on the DeepSort path and on the
\* path without DeepSort, has a box with x, y, w, h >= 0 that lies within
\* the frame: x + w <= frame width, y + h <= frame height.
C23_BoxesInsideFrame ==
    fx_faces # <<>> =>
      \A t \in 1 .. Len(fx_faces.returned) :
        LET b == fx_faces.returned[t].bbox
        IN /\ b[1] >= 0 /\ b[2] >= 0 /\ b[3] >= 0 /\ b[4] >= 0
           /\ b[1] + b[3] <= fx_frame.w
           /\ b[2] + b[4] <= fx_frame.h

====
